---- MODULE Spec2Model ----
(***************************************************************************)
(* playtak-tei: a relay between the PlayTak server's line protocol and a   *)
(* TEI engine subprocess.  Text is modelled as it is parsed: a token is a  *)
(* sequence of one-character strings, a line is the sequence of tokens     *)
(* that split_ascii_whitespace yields (the trailing "\n" of a written line *)
(* is implicit).  A fallible computation yields Ok(v), Err (an io::Error   *)
(* or parse error value) or Panic (an index out of bounds, an unwrap of    *)
(* None, an arithmetic overflow in a build with overflow checks).          *)
(***************************************************************************)
EXTENDS Integers, Sequences, FiniteSets, TLC

VARIABLES
    args,          \* the run mode given on the command line (ArgCommand)
    phase,         \* the relay phase of section 4.6
    pc,            \* the await point the main task is at
    result,        \* "running", or how main_inner ended: "ok", "err", "panic"
    game,          \* the Game (GameSession), NoGame before it is created
    seeks,         \* the seeks collected by SeekNegotiation
    engine_options,\* the SpinOptions collected by initialize_engine, until it returns
    engineLaunched,\* the engine subprocess has been spawned
    cur,           \* the line last read by the main task, with its source
    pending,       \* the writes the current handler still has to make
    engineSent,    \* lines written to the engine since the last read
    serverSent,    \* lines written to the server by the main task since the last read
    pingState,     \* the keepalive task: "none", "running", "ended"
    wire,          \* byte-level view of the server connection (SpecWire)
    wmain,         \* bytes of the main task's line not yet written (SpecWire)
    wping,         \* bytes of the keepalive task's line not yet written (SpecWire)
    wlines,        \* the lines whose write has been started (SpecWire)
    call,          \* a function under study and its arguments (SpecOption, SpecCodec, SpecCoords)
    ret,           \* what that call returned, NoCall before it returns
    produced,      \* per source, the lines it has written so far (SpecSelect)
    stream,        \* per source, the bytes written and not yet taken by its reader (SpecSelect)
    linebuf,       \* per source, the partial line held by its Lines stream (SpecSelect)
    processed      \* per source, the lines handed to the loop of run_game (SpecSelect)

vars == <<args, phase, pc, result, game, seeks, engine_options, engineLaunched,
          cur, pending, engineSent, serverSent, pingState,
          wire, wmain, wping, wlines, call, ret,
          produced, stream, linebuf, processed>>

\* the variables of the two line readers
mux == <<produced, stream, linebuf, processed>>

----------------------------------------------------------------------------
(* Results *)

Ok(v) == [tag |-> "Ok", val |-> v]
Err == [tag |-> "Err"]
Panic == [tag |-> "Panic"]
IsOk(r) == r.tag = "Ok"

----------------------------------------------------------------------------
(* Characters and numbers *)

DigitChars == <<"0", "1", "2", "3", "4", "5", "6", "7", "8", "9">>
LowerChars == <<"a", "b", "c", "d", "e", "f", "g", "h">>
UpperChars == <<"A", "B", "C", "D", "E", "F", "G", "H">>

\* the index of c in s, 0 when c does not occur
IndexOf(s, c) ==
    IF \E i \in 1..Len(s) : s[i] = c
    THEN CHOOSE i \in 1..Len(s) : s[i] = c
    ELSE 0

\* char::to_digit(radix): -1 stands for None.  Radix 10 and 18 are the two used.
to_digit(c, radix) ==
    LET d == IndexOf(DigitChars, c)
        l == IndexOf(LowerChars, c)
        u == IndexOf(UpperChars, c)
        v == IF d > 0 THEN d - 1
             ELSE IF l > 0 THEN 9 + l
             ELSE IF u > 0 THEN 9 + u
             ELSE -1
    IN  IF v >= 0 /\ v < radix THEN v ELSE -1

\* char::from_digit(num, radix): Ok(char), or Panic for the unwrap of None
from_digit(num, radix) ==
    IF num < 0 \/ num >= radix THEN Panic
    ELSE IF num < 10 THEN Ok(DigitChars[num + 1])
    ELSE Ok(LowerChars[num - 9])

\* str::to_uppercase on one character of a square (a file letter or a digit)
UpperChar(c) ==
    LET l == IndexOf(LowerChars, c)
    IN  IF l > 0 THEN UpperChars[l] ELSE c

to_uppercase(s) == [i \in 1..Len(s) |-> UpperChar(s[i])]

IsDigits(s) == \A i \in 1..Len(s) : IndexOf(DigitChars, s[i]) > 0

RECURSIVE DigitsValue(_)
DigitsValue(s) ==
    IF s = <<>> THEN 0
    ELSE 10 * DigitsValue(SubSeq(s, 1, Len(s) - 1)) + (IndexOf(DigitChars, s[Len(s)]) - 1)

RECURSIVE StripZeros(_)
StripZeros(s) ==
    IF Len(s) > 1 /\ s[1] = "0" THEN StripZeros(Tail(s)) ELSE s

\* str::parse::<u32>: an optional "+", then one or more decimal digits, the
\* value at most u32::MAX.  Ten significant digits are compared digit by digit
\* with 4294967295.  (The inputs of this model have at most nine significant
\* digits, so every value it computes is one the checker's integers hold.)
U32MaxDigits == <<"4", "2", "9", "4", "9", "6", "7", "2", "9", "5">>

RECURSIVE DigitsLeq(_, _)
DigitsLeq(a, b) ==
    IF a = <<>> THEN TRUE
    ELSE IF a[1] # b[1] THEN IndexOf(DigitChars, a[1]) < IndexOf(DigitChars, b[1])
    ELSE DigitsLeq(Tail(a), Tail(b))

parse_u32(s) ==
    LET body == IF Len(s) >= 1 /\ s[1] = "+" THEN Tail(s) ELSE s
        sig == StripZeros(body)
    IN  IF body = <<>> \/ ~IsDigits(body) THEN Err
        ELSE IF Len(sig) > 10 THEN Err
        ELSE IF Len(sig) = 10 /\ ~DigitsLeq(sig, U32MaxDigits) THEN Err
        ELSE Ok(DigitsValue(sig))

\* Display of a u32
RECURSIVE fmt_u32(_)
fmt_u32(n) ==
    IF n < 10 THEN <<DigitChars[n + 1]>>
    ELSE Append(fmt_u32(n \div 10), DigitChars[(n % 10) + 1])

\* u32 arithmetic: a result outside 0..u32::MAX panics when the build checks
\* overflow (debug) and wraps modulo 2^32 when it does not (release).  A u32
\* is held in two 16-bit limbs where it may exceed the checker's integers.
Limb == 256 * 256

Limbs(hi, lo) == [hi |-> hi, lo |-> lo]

\* value * 1000 in u32, for value < 2^31
mul1000_u32(value, overflow_checks) ==
    LET lo == (value % Limb) * 1000
        hi == (value \div Limb) * 1000 + (lo \div Limb)
    IN  IF hi >= Limb /\ overflow_checks THEN Panic
        ELSE Ok(Limbs(hi % Limb, lo % Limb))

\* Display of a u32 held in limbs, by long division by ten
RECURSIVE fmt_limbs(_)
fmt_limbs(n) ==
    LET rest == (n.hi % 10) * Limb + n.lo
        q == Limbs(n.hi \div 10, rest \div 10)
        d == DigitChars[(rest % 10) + 1]
    IN  IF q.hi = 0 /\ q.lo = 0 THEN <<d>>
        ELSE Append(fmt_limbs(q), d)

\* a - b in u32.  Without overflow checks a negative result stands for the
\* wrapped value 2^32 + a - b; adding a small number to it wraps back when the
\* sum is non-negative and is a huge value (no digit) when it is not.
sub_u32(a, b, overflow_checks) ==
    IF a < b /\ overflow_checks THEN Panic ELSE Ok(a - b)

----------------------------------------------------------------------------
(* game.rs: the coordinate codec *)

coords_from_square(value) ==
    IF Len(value) # 2 THEN Err
    ELSE LET f == to_digit(value[1], 18)
             r == to_digit(value[2], 10)
         IN  IF f < 10 THEN Err
             ELSE IF r < 1 THEN Err
             ELSE Ok(<<f - 10, r - 1>>)

\* a rank digit that starts at 0
square_from_coords_m(x, y) ==
    LET f == from_digit(x + 10, 18)
        r == from_digit(y, 10)
    IN  IF ~IsOk(f) \/ ~IsOk(r) THEN Panic
        ELSE Ok(<<f.val, r.val>>)

square_from_coords(x, y) ==
    LET f == from_digit(x + 10, 18)
        r == from_digit(y + 1, 10)
    IN  IF ~IsOk(f) \/ ~IsOk(r) THEN Panic
        ELSE Ok(<<f.val, r.val>>)

----------------------------------------------------------------------------
(* game.rs: GameMove and its two codecs *)

PieceTypes == {"Flatstone", "StandingStone", "Capstone"}
Directions == {"North", "South", "East", "West"}

Place(x, y, piece_type) ==
    [kind |-> "Place", x |-> x, y |-> y, piece_type |-> piece_type]

Spread(x, y, direction, drops) ==
    [kind |-> "Spread", x |-> x, y |-> y, direction |-> direction, drops |-> drops]

\* the drops of a wire spread line: every token from the fifth on parses as u32
RECURSIVE parse_drops(_)
parse_drops(tokens) ==
    IF tokens = <<>> THEN Ok(<<>>)
    ELSE LET d == parse_u32(tokens[1])
             rest == parse_drops(Tail(tokens))
         IN  IF ~IsOk(d) THEN Err
             ELSE IF ~IsOk(rest) THEN Err
             ELSE Ok(<<d.val>> \o rest.val)

from_playtak(parts) ==
    IF Len(parts) < 2 THEN Panic
    ELSE IF parts[2] = <<"P">> THEN
        IF Len(parts) < 3 THEN Panic
        ELSE LET c == coords_from_square(parts[3])
             IN  IF ~IsOk(c) THEN Err
                 ELSE IF Len(parts) < 4 THEN Ok(Place(c.val[1], c.val[2], "Flatstone"))
                 ELSE IF parts[4] = <<"W">> THEN Ok(Place(c.val[1], c.val[2], "StandingStone"))
                 ELSE IF parts[4] = <<"C">> THEN Ok(Place(c.val[1], c.val[2], "Capstone"))
                 ELSE Err
    ELSE IF parts[2] = <<"M">> THEN
        IF Len(parts) < 3 THEN Panic
        ELSE LET c == coords_from_square(parts[3])
             IN  IF ~IsOk(c) THEN Err
                 ELSE IF Len(parts) < 4 THEN Panic
                 ELSE LET t == coords_from_square(parts[4])
                          x == c.val[1]
                          y == c.val[2]
                          direction ==
                              IF t.val[2] > y THEN "North"
                              ELSE IF t.val[2] < y THEN "South"
                              ELSE IF t.val[1] > x THEN "East"
                              ELSE "West"
                          drops == parse_drops(SubSeq(parts, 5, Len(parts)))
                      IN  IF ~IsOk(t) THEN Err
                          ELSE IF ~IsOk(drops) THEN Err
                          ELSE Ok(Spread(x, y, direction, drops.val))
    ELSE Err

GameTag(game_id) == <<"G", "a", "m", "e", "#">> \o fmt_u32(game_id)

RECURSIVE fmt_drops(_)
fmt_drops(drops) ==
    IF drops = <<>> THEN <<>>
    ELSE <<fmt_u32(drops[1])>> \o fmt_drops(Tail(drops))

to_playtak(m, game_id, overflow_checks) ==
    IF m.kind = "Place" THEN
        LET square == square_from_coords(m.x, m.y)
            suffix == IF m.piece_type = "StandingStone" THEN << <<"W">> >>
                      ELSE IF m.piece_type = "Capstone" THEN << <<"C">> >>
                      ELSE <<>>
        IN  IF ~IsOk(square) THEN Panic
            ELSE Ok(<<GameTag(game_id), <<"P">>, to_uppercase(square.val)>> \o suffix)
    ELSE
        LET count == Len(m.drops)
            tx == IF m.direction = "East" THEN Ok(m.x + count)
                  ELSE IF m.direction = "West" THEN sub_u32(m.x, count, overflow_checks)
                  ELSE Ok(m.x)
            ty == IF m.direction = "North" THEN Ok(m.y + count)
                  ELSE IF m.direction = "South" THEN sub_u32(m.y, count, overflow_checks)
                  ELSE Ok(m.y)
            square == square_from_coords(m.x, m.y)
            target == square_from_coords(tx.val, ty.val)
        IN  IF ~IsOk(tx) \/ ~IsOk(ty) THEN Panic
            ELSE IF ~IsOk(square) \/ ~IsOk(target) THEN Panic
            ELSE Ok(<<GameTag(game_id), <<"M">>, to_uppercase(square.val),
                      to_uppercase(target.val)>> \o fmt_drops(m.drops))

\* the explicit drops of an algebraic spread: the digits that follow the
\* direction character, up to the first character that is not a digit
RECURSIVE ptn_drops(_)
ptn_drops(chars) ==
    IF chars = <<>> THEN <<>>
    ELSE IF to_digit(chars[1], 10) < 0 THEN <<>>
    ELSE <<to_digit(chars[1], 10)>> \o ptn_drops(Tail(chars))

from_ptn(value) ==
    IF value = <<>> THEN Panic
    ELSE
        LET c0 == value[1]
            piece_type == IF c0 = "S" THEN "StandingStone"
                          ELSE IF c0 = "C" THEN "Capstone"
                          ELSE "Flatstone"
            pickup == IF to_digit(c0, 10) >= 0 THEN to_digit(c0, 10) ELSE 1
            chars == IF c0 \in {"F", "S", "C"} \/ to_digit(c0, 10) >= 0
                     THEN Tail(value) ELSE value
        IN  IF Len(chars) < 2 THEN Panic
            ELSE LET c == coords_from_square(<<chars[1], chars[2]>>)
                 IN  IF ~IsOk(c) THEN Err
                     ELSE IF Len(chars) = 2 THEN Ok(Place(c.val[1], c.val[2], piece_type))
                     ELSE LET direction ==
                                  IF chars[3] = "+" THEN "North"
                                  ELSE IF chars[3] = "-" THEN "South"
                                  ELSE IF chars[3] = ">" THEN "East"
                                  ELSE IF chars[3] = "<" THEN "West"
                                  ELSE "none"
                              digits == ptn_drops(SubSeq(chars, 4, Len(chars)))
                              drops == IF digits = <<>> THEN <<pickup>> ELSE digits
                          IN  IF direction = "none" THEN Err
                              ELSE Ok(Spread(c.val[1], c.val[2], direction, drops))

RECURSIVE SumSeq(_)
SumSeq(s) == IF s = <<>> THEN 0 ELSE s[1] + SumSeq(Tail(s))

\* the drop digits of to_ptn: char::from_digit(drop, 10).unwrap() for each
RECURSIVE drop_digits(_)
drop_digits(drops) ==
    IF drops = <<>> THEN Ok(<<>>)
    ELSE LET d == from_digit(drops[1], 10)
             rest == drop_digits(Tail(drops))
         IN  IF ~IsOk(d) THEN Panic
             ELSE IF ~IsOk(rest) THEN Panic
             ELSE Ok(<<d.val>> \o rest.val)

to_ptn(m) ==
    IF m.kind = "Place" THEN
        LET square == square_from_coords(m.x, m.y)
            marker == IF m.piece_type = "StandingStone" THEN <<"S">>
                      ELSE IF m.piece_type = "Capstone" THEN <<"C">>
                      ELSE <<>>
        IN  IF ~IsOk(square) THEN Panic ELSE Ok(marker \o square.val)
    ELSE
        LET n == SumSeq(m.drops)
            count == IF n > 1 THEN fmt_u32(n) ELSE <<>>
            square == square_from_coords(m.x, m.y)
            dir == IF m.direction = "North" THEN "+"
                   ELSE IF m.direction = "South" THEN "-"
                   ELSE IF m.direction = "East" THEN ">"
                   ELSE "<"
            digits == IF Len(m.drops) > 1 THEN drop_digits(m.drops) ELSE Ok(<<>>)
        IN  IF ~IsOk(square) THEN Panic
            ELSE IF ~IsOk(digits) THEN Panic
            ELSE Ok(count \o square.val \o <<dir>> \o digits.val)

----------------------------------------------------------------------------
(* Text helpers: a line is held as its tokens, which stand for the raw line
   with single spaces between them *)

StartsWith(tok, prefix) ==
    Len(tok) >= Len(prefix) /\ SubSeq(tok, 1, Len(prefix)) = prefix

EndsWith(tok, suffix) ==
    Len(tok) >= Len(suffix) /\ SubSeq(tok, Len(tok) - Len(suffix) + 1, Len(tok)) = suffix

\* str::starts_with for a pattern of two words: "Game Start", "Seek new", "id name"
LineStartsWith2(line, w1, w2) ==
    Len(line) >= 2 /\ line[1] = w1 /\ StartsWith(line[2], w2)

\* str::starts_with for a pattern of one word
LineStartsWith1(line, w) == Len(line) >= 1 /\ StartsWith(line[1], w)

\* str::contains for a pattern of two words
LineContains2(line, w1, w2) ==
    \E i \in 1..(Len(line) - 1) : EndsWith(line[i], w1) /\ StartsWith(line[i + 1], w2)

\* str::parse::<i32>: an optional "+" or "-", then one or more decimal digits,
\* the value within i32::MIN..=i32::MAX.  Ten significant digits are compared
\* digit by digit with 2147483647, or with 2147483648 after a "-"; a negative
\* value is accumulated below zero, as the library does, so that i32::MIN is
\* computed without passing through 2147483648.
I32MaxDigits == <<"2", "1", "4", "7", "4", "8", "3", "6", "4", "7">>

I32MinDigits == <<"2", "1", "4", "7", "4", "8", "3", "6", "4", "8">>

RECURSIVE NegDigitsValue(_)
NegDigitsValue(s) ==
    IF s = <<>> THEN 0
    ELSE 10 * NegDigitsValue(SubSeq(s, 1, Len(s) - 1)) - (IndexOf(DigitChars, s[Len(s)]) - 1)

parse_i32(s) ==
    LET negative == Len(s) >= 1 /\ s[1] = "-"
        body == IF Len(s) >= 1 /\ (s[1] = "+" \/ s[1] = "-") THEN Tail(s) ELSE s
        sig == StripZeros(body)
        bound == IF negative THEN I32MinDigits ELSE I32MaxDigits
    IN  IF body = <<>> \/ ~IsDigits(body) THEN Err
        ELSE IF Len(sig) > 10 THEN Err
        ELSE IF Len(sig) = 10 /\ ~DigitsLeq(sig, bound) THEN Err
        ELSE IF negative THEN Ok(NegDigitsValue(sig))
        ELSE Ok(DigitsValue(sig))

\* Display of an i32; the digits of a negative value are taken from the value
\* itself, so that i32::MIN is formatted without negating it
fmt_i32(n) ==
    IF n < 0
    THEN LET last == (10 - (n % 10)) % 10
             rest == 0 - ((n + last) \div 10)
         IN  IF rest = 0 THEN <<"-", DigitChars[last + 1]>>
             ELSE <<"-">> \o Append(fmt_u32(rest), DigitChars[last + 1])
    ELSE fmt_u32(n)

----------------------------------------------------------------------------
(* Words of the two protocols *)

W_Game == <<"G", "a", "m", "e">>
W_Start == <<"S", "t", "a", "r", "t">>
W_Seek == <<"S", "e", "e", "k">>
W_new == <<"n", "e", "w">>
W_Welcome == <<"W", "e", "l", "c", "o", "m", "e">>
W_P == <<"P">>
W_M == <<"M">>
W_Time == <<"T", "i", "m", "e">>
W_Over == <<"O", "v", "e", "r">>
W_NOK == <<"N", "O", "K">>
W_bestmove == <<"b", "e", "s", "t", "m", "o", "v", "e">>
W_id == <<"i", "d">>
W_name == <<"n", "a", "m", "e">>
W_option == <<"o", "p", "t", "i", "o", "n">>
W_type == <<"t", "y", "p", "e">>
W_spin == <<"s", "p", "i", "n">>
W_default == <<"d", "e", "f", "a", "u", "l", "t">>
W_min == <<"m", "i", "n">>
W_max == <<"m", "a", "x">>
W_value == <<"v", "a", "l", "u", "e">>
W_setoption == <<"s", "e", "t", "o", "p", "t", "i", "o", "n">>
W_teinewgame == <<"t", "e", "i", "n", "e", "w", "g", "a", "m", "e">>
W_position == <<"p", "o", "s", "i", "t", "i", "o", "n">>
W_startpos == <<"s", "t", "a", "r", "t", "p", "o", "s">>
W_moves == <<"m", "o", "v", "e", "s">>
W_go == <<"g", "o">>
W_wtime == <<"w", "t", "i", "m", "e">>
W_btime == <<"b", "t", "i", "m", "e">>
W_white == <<"w", "h", "i", "t", "e">>
W_black == <<"b", "l", "a", "c", "k">>
W_Accept == <<"A", "c", "c", "e", "p", "t">>
W_HalfKomi == <<"H", "a", "l", "f", "K", "o", "m", "i">>
W_Flatstones == <<"F", "l", "a", "t", "s", "t", "o", "n", "e", "s">>
W_Capstones == <<"C", "a", "p", "s", "t", "o", "n", "e", "s">>

L_Welcome == << <<"W", "e", "l", "c", "o", "m", "e", "!">> >>
L_LoginOrRegister == << <<"L", "o", "g", "i", "n">>, <<"o", "r">>, <<"R", "e", "g", "i", "s", "t", "e", "r">> >>
L_Client == << <<"C", "l", "i", "e", "n", "t">>, <<"p", "l", "a", "y", "t", "a", "k", "-", "t", "e", "i">> >>
L_OK == << <<"O", "K">> >>
L_AuthFailure == << <<"A", "u", "t", "h", "e", "n", "t", "i", "c", "a", "t", "i", "o", "n">>, <<"f", "a", "i", "l", "u", "r", "e">> >>
L_Resumed == << <<"M", "e", "s", "s", "a", "g", "e">>, <<"Y", "o", "u", "r">>, <<"g", "a", "m", "e">>, <<"i", "s">>, <<"r", "e", "s", "u", "m", "e", "d">> >>
L_teiok == << <<"t", "e", "i", "o", "k">> >>
L_tei == << <<"t", "e", "i">> >>
L_quit == << <<"q", "u", "i", "t">> >>
L_PING == << <<"P", "I", "N", "G">> >>

----------------------------------------------------------------------------
(* game.rs: Game *)

NoGame == [id |-> -1]

\* Game::from_str.  The fields are read in the order the code reads them, so
\* that a line both too short and malformed fails the way the code fails.
Game_from_str(parts) ==
    IF Len(parts) < 8 THEN Panic
    ELSE IF parts[8] # W_white /\ parts[8] # W_black THEN Err
    ELSE IF Len(parts) < 9 THEN Panic
    ELSE LET time == parse_u32(parts[9])
             id == parse_u32(parts[3])
             size == parse_u32(parts[4])
         IN  IF ~IsOk(time) \/ ~IsOk(id) \/ ~IsOk(size) THEN Err
             ELSE IF Len(parts) < 10 THEN Panic
             ELSE IF ~IsOk(parse_u32(parts[10])) THEN Err
             ELSE IF Len(parts) < 11 THEN Panic
             ELSE IF ~IsOk(parse_u32(parts[11])) THEN Err
             ELSE IF Len(parts) < 12 THEN Panic
             ELSE IF ~IsOk(parse_u32(parts[12])) THEN Err
             ELSE Ok([id |-> id.val,
                      size |-> size.val,
                      opponent |-> IF parts[8] = W_white THEN parts[7] ELSE parts[5],
                      color |-> parts[8],
                      time |-> <<time.val, time.val>>,
                      half_komi |-> parse_u32(parts[10]).val,
                      flatstones |-> parse_u32(parts[11]).val,
                      capstones |-> parse_u32(parts[12]).val,
                      moves |-> <<>>])

new_game_string(g) == <<W_teinewgame, fmt_u32(g.size)>>

search_string(g, overflow_checks) ==
    LET w == mul1000_u32(g.time[1], overflow_checks)
        b == mul1000_u32(g.time[2], overflow_checks)
    IN  IF ~IsOk(w) \/ ~IsOk(b) THEN Panic
        ELSE Ok(<<W_go, W_wtime, fmt_limbs(w.val), W_btime, fmt_limbs(b.val)>>)

RECURSIVE ptn_moves(_)
ptn_moves(moves) ==
    IF moves = <<>> THEN Ok(<<>>)
    ELSE LET m == to_ptn(moves[1])
             rest == ptn_moves(Tail(moves))
         IN  IF ~IsOk(m) THEN Panic
             ELSE IF ~IsOk(rest) THEN Panic
             ELSE Ok(<<m.val>> \o rest.val)

position_string(g) ==
    LET ms == ptn_moves(g.moves)
    IN  IF ~IsOk(ms) THEN Panic
        ELSE Ok(<<W_position, W_startpos, W_moves>> \o ms.val)

\* run_game: whether the engine moves first
our_turn(g) ==
    \/ g.color = W_white /\ Len(g.moves) % 2 = 0
    \/ g.color = W_black /\ Len(g.moves) % 2 = 1

----------------------------------------------------------------------------
(* option.rs *)

\* SpinOption::from_str: the words of the line are scanned in order; a key
\* word consumes the word after it
RECURSIVE SpinOption_scan(_, _)
SpinOption_scan(option, parts) ==
    IF parts = <<>> THEN Ok(option)
    ELSE LET part == parts[1]
             rest == Tail(parts)
             num == IF rest = <<>> THEN Err ELSE parse_i32(rest[1])
         IN  IF part = W_name THEN
                 IF rest = <<>> THEN Err
                 ELSE SpinOption_scan([option EXCEPT !.name = rest[1]], Tail(rest))
             ELSE IF part = W_type THEN
                 IF rest = <<>> \/ rest[1] # W_spin THEN Panic
                 ELSE SpinOption_scan(option, Tail(rest))
             ELSE IF part = W_default THEN
                 IF ~IsOk(num) THEN Err
                 ELSE SpinOption_scan([option EXCEPT !.default = num.val], Tail(rest))
             ELSE IF part = W_min THEN
                 IF ~IsOk(num) THEN Err
                 ELSE SpinOption_scan([option EXCEPT !.min = num.val], Tail(rest))
             ELSE IF part = W_max THEN
                 IF ~IsOk(num) THEN Err
                 ELSE SpinOption_scan([option EXCEPT !.max = num.val], Tail(rest))
             ELSE SpinOption_scan(option, rest)

SpinOption_from_str(parts) ==
    SpinOption_scan([name |-> <<>>, default |-> 0, min |-> 0, max |-> 0], parts)

valid_value(option, value) == option.min <= value /\ value <= option.max

to_tei_string(option, value) ==
    <<W_setoption, W_name, option.name, W_value, fmt_i32(value)>>

\* options.iter().find(|o| o.name == name): the index of the first, 0 for None
FindOption(options, name) ==
    IF \E i \in 1..Len(options) : options[i].name = name
    THEN CHOOSE i \in 1..Len(options) :
             /\ options[i].name = name
             /\ \A j \in 1..(i - 1) : options[j].name # name
    ELSE 0

\* a negotiation that refuses a value outside the advertised range
validate_and_set_option_r(options, name, value, default) ==
    LET i == FindOption(options, name)
    IN  IF i > 0 THEN
            IF value # options[i].default
            THEN IF valid_value(options[i], value)
                 THEN Ok(<<to_tei_string(options[i], value)>>)
                 ELSE Err
            ELSE Ok(<<>>)
        ELSE IF value # default THEN Err
        ELSE Ok(<<>>)

\* a negotiation that compares the request with the assumed default even when
\* the engine advertises its own
validate_and_set_option_m(options, name, value, default) ==
    LET i == FindOption(options, name)
    IN  IF i > 0 THEN
            IF value # default
            THEN Ok(<<to_tei_string(options[i], value)>>)
            ELSE Ok(<<>>)
        ELSE IF value # default THEN Err
        ELSE Ok(<<>>)

\* validate_and_set_option, up to its write: Ok(the lines to write) or Err
validate_and_set_option(options, name, value, default) ==
    LET i == FindOption(options, name)
    IN  IF i > 0 THEN
            IF value # options[i].default
            THEN Ok(<<to_tei_string(options[i], value)>>)
            ELSE Ok(<<>>)
        ELSE IF value # default THEN Err
        ELSE Ok(<<>>)

----------------------------------------------------------------------------
(* seek.rs *)

\* flatstones_for_size and capstones_for_size; -1 stands for unreachable!()
flatstones_for_size(size) ==
    IF size = 3 THEN 10 ELSE IF size = 4 THEN 15 ELSE IF size = 5 THEN 21
    ELSE IF size = 6 THEN 30 ELSE IF size = 7 THEN 40 ELSE IF size = 8 THEN 50
    ELSE -1

capstones_for_size(size) ==
    IF size = 3 THEN 0 ELSE IF size = 4 THEN 0 ELSE IF size = 5 THEN 1
    ELSE IF size = 6 THEN 1 ELSE IF size = 7 THEN 2 ELSE IF size = 8 THEN 2
    ELSE -1

\* Seek::from_str: the fields in the order the code reads them
Seek_from_str(parts) ==
    IF Len(parts) < 3 THEN Panic
    ELSE IF ~IsOk(parse_u32(parts[3])) THEN Err
    ELSE IF Len(parts) < 5 THEN Panic
    ELSE IF ~IsOk(parse_u32(parts[5])) THEN Err
    ELSE IF Len(parts) < 6 THEN Panic
    ELSE IF ~IsOk(parse_u32(parts[6])) THEN Err
    ELSE IF Len(parts) < 7 THEN Panic
    ELSE IF ~IsOk(parse_u32(parts[7])) THEN Err
    ELSE IF Len(parts) < 8 THEN Panic
    ELSE IF parts[8] \notin {<<"W">>, <<"B">>, <<"A">>} THEN Panic
    ELSE IF Len(parts) < 9 THEN Panic
    ELSE IF ~IsOk(parse_u32(parts[9])) THEN Err
    ELSE IF Len(parts) < 10 THEN Panic
    ELSE IF ~IsOk(parse_u32(parts[10])) THEN Err
    ELSE IF Len(parts) < 11 THEN Panic
    ELSE IF ~IsOk(parse_u32(parts[11])) THEN Err
    ELSE IF Len(parts) < 12 THEN Panic
    ELSE IF parts[12] \notin {<<"0">>, <<"1">>} THEN Panic
    ELSE IF Len(parts) < 13 THEN Panic
    ELSE IF parts[13] \notin {<<"0">>, <<"1">>} THEN Panic
    ELSE IF Len(parts) < 14 THEN Panic
    ELSE IF ~IsOk(parse_u32(parts[14])) THEN Err
    ELSE IF Len(parts) < 15 THEN Panic
    ELSE IF ~IsOk(parse_u32(parts[15])) THEN Err
    ELSE Ok([id |-> parse_u32(parts[3]).val,
             player |-> parts[4],
             size |-> parse_u32(parts[5]).val,
             time |-> parse_u32(parts[6]).val,
             increment |-> parse_u32(parts[7]).val,
             color |-> parts[8],
             half_komi |-> parse_u32(parts[9]).val,
             flatstones |-> parse_u32(parts[10]).val,
             capstones |-> parse_u32(parts[11]).val,
             unrated |-> parts[12] = <<"1">>,
             tournament |-> parts[13] = <<"1">>,
             extra_time_move |-> parse_u32(parts[14]).val,
             extra_time_amount |-> parse_u32(parts[15]).val,
             opponent |-> IF Len(parts) >= 16 THEN parts[16] ELSE <<>>])

\* Seek::to_seek_string; an absent opponent is written as the empty string,
\* which leaves no token
to_seek_string(seek) ==
    <<W_Seek, fmt_u32(seek.size), fmt_u32(seek.time), fmt_u32(seek.increment),
      seek.color, fmt_u32(seek.half_komi), fmt_u32(seek.flatstones),
      fmt_u32(seek.capstones),
      IF seek.unrated THEN <<"1">> ELSE <<"0">>,
      IF seek.tournament THEN <<"1">> ELSE <<"0">>,
      fmt_u32(seek.extra_time_move), fmt_u32(seek.extra_time_amount)>>
    \o (IF seek.opponent = <<>> THEN <<>> ELSE <<seek.opponent>>)

\* seeks.iter().find(|s| s.player == Some(opponent)): the index of the first
FindSeek(ss, opponent) ==
    IF \E i \in 1..Len(ss) : ss[i].player = opponent
    THEN CHOOSE i \in 1..Len(ss) :
             /\ ss[i].player = opponent
             /\ \A j \in 1..(i - 1) : ss[j].player # opponent
    ELSE 0

----------------------------------------------------------------------------
(* The environment: the lines the server and the engine may produce, and the
   command lines the relay may be started with.  Each set holds well-formed
   lines, lines for another game, and malformed lines. *)

MaxMoves == 2     \* the longest move history explored
MaxSeeks == 1     \* the most seek announcements collected
MaxOptions == 2   \* the most spin options collected

L_Unexpected == << <<"S", "e", "r", "v", "e", "r">>, <<"f", "u", "l", "l">> >>
L_WelcomeUser == << <<"W", "e", "l", "c", "o", "m", "e">>, <<"a", "l", "i", "c", "e", "!">> >>
L_WelcomeBare == << <<"W", "e", "l", "c", "o", "m", "e">> >>
L_Empty == <<>>

\* game-start and resumption lines
GameStartLines ==
    { << <<"G", "a", "m", "e">>, <<"S", "t", "a", "r", "t">>, <<"1">>, <<"5">>, <<"a", "l", "i", "c", "e">>, <<"v", "s">>, <<"b", "o", "b">>, <<"w", "h", "i", "t", "e">>, <<"6", "0">>, <<"0">>, <<"2", "1">>, <<"1">> >>,
      << <<"G", "a", "m", "e">>, <<"S", "t", "a", "r", "t">>, <<"1", "2">>, <<"6">>, <<"b", "o", "b">>, <<"v", "s">>, <<"a", "l", "i", "c", "e">>, <<"b", "l", "a", "c", "k">>, <<"6", "0">>, <<"4">>, <<"3", "0">>, <<"1">> >>,
      << <<"G", "a", "m", "e">>, <<"S", "t", "a", "r", "t">>, <<"1">>, <<"5">>, <<"a", "l", "i", "c", "e">>, <<"v", "s">>, <<"b", "o", "b">>, <<"g", "r", "e", "e", "n">>, <<"6", "0">>, <<"0">>, <<"2", "1">>, <<"1">> >>,
      << <<"G", "a", "m", "e">>, <<"S", "t", "a", "r", "t">>, <<"1">>, <<"5">> >> }

\* in-game move lines
MoveLines ==
    { << <<"G", "a", "m", "e", "#", "1">>, <<"P">>, <<"A", "1">> >>,
      << <<"G", "a", "m", "e", "#", "1">>, <<"M">>, <<"A", "1">>, <<"A", "3">>, <<"1", "0">>, <<"2">> >>,
      << <<"G", "a", "m", "e", "#", "1", "2">>, <<"P">>, <<"A", "1">> >> }

\* in-game clock lines
TimeLines ==
    { << <<"G", "a", "m", "e", "#", "1">>, <<"T", "i", "m", "e">>, <<"3", "0">>, <<"4", "2", "9", "4", "9", "6", "8">> >>,
      << <<"G", "a", "m", "e", "#", "1", "2">>, <<"T", "i", "m", "e">>, <<"3", "0">>, <<"4", "2", "9", "4", "9", "6", "8">> >> }

\* game-over lines
OverLines ==
    { << <<"G", "a", "m", "e", "#", "1">>, <<"O", "v", "e", "r">>, <<"R", "-", "0">> >>,
      << <<"G", "a", "m", "e", "#", "1", "2">>, <<"O", "v", "e", "r">>, <<"R", "-", "0">> >> }

\* lines of other shapes
OddLines ==
    { << <<"N", "O", "K">> >>,
      << <<"G", "a", "m", "e", "#", "1">>, <<"S", "h", "o", "u", "t">>, <<"h", "i">> >>,
      << <<"G", "a", "m", "e", "#", "1">>, <<"O", "v", "e", "r">> >>,
      << <<"G", "a", "m", "e", "#", "1">>, <<"P">>, <<"Z", "9">> >>,
      << <<"G", "a", "m", "e", "#", "1">>, <<"T", "i", "m", "e">>, <<"x">>, <<"5">> >>,
      << <<"G", "a", "m", "e", "#", "1">>, <<"T", "i", "m", "e">>, <<"5">> >>,
      << <<"G", "a", "m", "e", "#", "1">>, <<"M">>, <<"A", "1">>, <<"A", "2">> >>,
      << <<"G", "a", "m", "e", "#", "1">> >> }

ServerGameLines == MoveLines \cup TimeLines \cup OverLines \cup OddLines \cup {L_Empty}

\* engine lines during the game
EngineGameLines ==
    { << <<"b", "e", "s", "t", "m", "o", "v", "e">>, <<"a", "1">> >>,
      << <<"b", "e", "s", "t", "m", "o", "v", "e">>, <<"a", "1", "+">> >>,
      << <<"b", "e", "s", "t", "m", "o", "v", "e">>, <<"h", "1", ">">> >>,
      << <<"b", "e", "s", "t", "m", "o", "v", "e">>, <<"a", "1", "-">> >>,
      << <<"b", "e", "s", "t", "m", "o", "v", "e">>, <<"z", "z">> >>,
      << <<"b", "e", "s", "t", "m", "o", "v", "e">>, <<"a">> >>,
      << <<"b", "e", "s", "t", "m", "o", "v", "e">> >>,
      << <<"i", "n", "f", "o">>, <<"d", "e", "p", "t", "h">>, <<"1">> >>,
      <<>> }

\* seek announcements
SeekLines ==
    { << <<"S", "e", "e", "k">>, <<"n", "e", "w">>, <<"7">>, <<"b", "o", "b">>, <<"5">>, <<"6", "0", "0">>, <<"1", "0">>, <<"W">>, <<"0">>, <<"2", "1">>, <<"1">>, <<"0">>, <<"0">>, <<"0">>, <<"0">> >>,
      << <<"S", "e", "e", "k">>, <<"n", "e", "w">>, <<"x">>, <<"b", "o", "b">>, <<"5">>, <<"6", "0", "0">>, <<"1", "0">>, <<"W">>, <<"0">>, <<"2", "1">>, <<"1">>, <<"0">>, <<"0">>, <<"0">>, <<"0">> >>,
      << <<"S", "e", "e", "k">>, <<"n", "e", "w">>, <<"8">>, <<"c", "a", "r", "o", "l">>, <<"5">>, <<"6", "0", "0">> >> }

\* engine option advertisements
OptionLines ==
    { << <<"o", "p", "t", "i", "o", "n">>, <<"n", "a", "m", "e">>, <<"H", "a", "l", "f", "K", "o", "m", "i">>, <<"t", "y", "p", "e">>, <<"s", "p", "i", "n">>, <<"d", "e", "f", "a", "u", "l", "t">>, <<"0">>, <<"m", "i", "n">>, <<"0">>, <<"m", "a", "x">>, <<"1", "0">> >>,
      << <<"o", "p", "t", "i", "o", "n">>, <<"n", "a", "m", "e">>, <<"H", "a", "l", "f", "K", "o", "m", "i">>, <<"t", "y", "p", "e">>, <<"s", "p", "i", "n">>, <<"d", "e", "f", "a", "u", "l", "t">>, <<"2">>, <<"m", "i", "n">>, <<"0">>, <<"m", "a", "x">>, <<"3">> >>,
      << <<"o", "p", "t", "i", "o", "n">>, <<"n", "a", "m", "e">>, <<"C", "a", "p", "s", "t", "o", "n", "e", "s">>, <<"t", "y", "p", "e">>, <<"s", "p", "i", "n">>, <<"d", "e", "f", "a", "u", "l", "t">>, <<"0">>, <<"m", "i", "n">>, <<"0">>, <<"m", "a", "x">>, <<"2">> >>,
      << <<"o", "p", "t", "i", "o", "n">>, <<"n", "a", "m", "e">>, <<"F", "l", "a", "t", "s", "t", "o", "n", "e", "s">>, <<"t", "y", "p", "e">>, <<"s", "p", "i", "n">>, <<"d", "e", "f", "a", "u", "l", "t">>, <<"z">>, <<"m", "i", "n">>, <<"1", "0">>, <<"m", "a", "x">>, <<"5", "0">> >>,
      << <<"o", "p", "t", "i", "o", "n">>, <<"n", "a", "m", "e">>, <<"C", "a", "p", "s", "t", "o", "n", "e", "s">>, <<"t", "y", "p", "e">>, <<"s", "p", "i", "n">>, <<"d", "e", "f", "a", "u", "l", "t">>, <<"0">>, <<"m", "i", "n">>, <<"0">>, <<"m", "a", "x">>, <<"2", "1", "4", "7", "4", "8", "3", "6", "4", "8">> >>,
      << <<"o", "p", "t", "i", "o", "n">>, <<"n", "a", "m", "e">>, <<"H", "a", "s", "h">>, <<"t", "y", "p", "e">>, <<"c", "o", "m", "b", "o">>, <<"d", "e", "f", "a", "u", "l", "t">>, <<"1">> >> }

L_IdName == << <<"i", "d">>, <<"n", "a", "m", "e">>, <<"T", "i", "l", "t", "a", "k">> >>

\* the command lines: list, accept by seek id, accept by opponent, post a seek
Login0 == [username |-> <<"a", "l", "i", "c", "e">>, password |-> <<"s", "e", "c", "r", "e", "t">>, guest_token |-> <<>>]

Seek0 ==
    [id |-> 0, player |-> <<>>, size |-> 5, time |-> 1200, increment |-> 20,
     color |-> <<"A">>, half_komi |-> 0, flatstones |-> flatstones_for_size(5),
     capstones |-> capstones_for_size(5), unrated |-> FALSE, tournament |-> FALSE,
     extra_time_move |-> 0, extra_time_amount |-> 0, opponent |-> <<>>]

ArgCommands ==
    { [command |-> "List", login |-> Login0],
      [command |-> "Accept", login |-> Login0, seek_id |-> 7, opponent |-> <<>>],
      [command |-> "Accept", login |-> Login0, seek_id |-> -1, opponent |-> <<"b", "o", "b">>],
      [command |-> "Seek", login |-> Login0, seek |-> Seek0] }

\* Login::to_login_string
to_login_string(login) ==
    IF login.username # <<>> /\ login.password # <<>>
    THEN <<<<"L", "o", "g", "i", "n">>, login.username, login.password>>
    ELSE IF login.guest_token # <<>>
    THEN <<<<"L", "o", "g", "i", "n">>, <<"G", "u", "e", "s", "t">>, login.guest_token>>
    ELSE <<<<"L", "o", "g", "i", "n">>, <<"G", "u", "e", "s", "t">>>>

----------------------------------------------------------------------------
(* main.rs: what the main task does with one line.  A handler yields the new
   Game and the operations that follow in program order: writes (each an
   await that may fail), a push onto the history, entering a phase, or the
   end of main_inner ("ok", "err" for an Err return, "panic"). *)

Write(dst, line) == [op |-> "write", dst |-> dst, line |-> line]
Push(m) == [op |-> "push", move |-> m]
Enter(ph) == [op |-> "enter", phase |-> ph]
Stop(res) == [op |-> "stop", result |-> res]

Writes(dst, lines) == [i \in 1..Len(lines) |-> Write(dst, lines[i])]

\* a replay whose position command leaves out the latest move
replay_ops_m(g, overflow_checks) ==
    LET position == position_string([g EXCEPT !.moves = SubSeq(@, 1, Len(@) - 1)])
        search == search_string(g, overflow_checks)
    IN  IF ~IsOk(position) THEN <<Stop("panic")>>
        ELSE IF ~IsOk(search) THEN <<Write("engine", position.val), Stop("panic")>>
        ELSE <<Write("engine", position.val), Write("engine", search.val)>>

\* write(position_string) then write(search_string)
replay_ops(g, overflow_checks) ==
    LET position == position_string(g)
        search == search_string(g, overflow_checks)
    IN  IF ~IsOk(position) THEN <<Stop("panic")>>
        ELSE IF ~IsOk(search) THEN <<Write("engine", position.val), Stop("panic")>>
        ELSE <<Write("engine", position.val), Write("engine", search.val)>>

\* a priming that sets the komi option again after teinewgame
priming_ops_m(g, overflow_checks) ==
    IF our_turn(g)
    THEN <<Write("engine", new_game_string(g)),
           Write("engine", <<W_setoption, W_name, W_HalfKomi, W_value, fmt_i32(g.half_komi)>>)>>
         \o replay_ops(g, overflow_checks)
    ELSE <<>>

\* run_game before its loop
priming_ops(g, overflow_checks) ==
    IF our_turn(g)
    THEN <<Write("engine", new_game_string(g))>> \o replay_ops(g, overflow_checks)
    ELSE <<>>

\* an engine branch that keeps only the latest move in the history
engine_line_m(g, parts, overflow_checks) ==
    IF Len(parts) < 1 THEN [game |-> g, ops |-> <<Stop("panic")>>]
    ELSE IF parts[1] # W_bestmove THEN [game |-> g, ops |-> <<>>]
    ELSE IF Len(parts) < 2 THEN [game |-> g, ops |-> <<Stop("panic")>>]
    ELSE LET game_move == from_ptn(parts[2])
             wire_line == to_playtak(game_move.val, g.id, overflow_checks)
         IN  IF game_move.tag = "Panic" THEN [game |-> g, ops |-> <<Stop("panic")>>]
             ELSE IF game_move.tag = "Err" THEN [game |-> g, ops |-> <<Stop("err")>>]
             ELSE IF ~IsOk(wire_line) THEN [game |-> g, ops |-> <<Stop("panic")>>]
             ELSE [game |-> [g EXCEPT !.moves = <<>>],
                   ops |-> <<Write("server", wire_line.val), Push(game_move.val)>>]

\* run_game, the engine branch of select!
engine_line(g, parts, overflow_checks) ==
    IF Len(parts) < 1 THEN [game |-> g, ops |-> <<Stop("panic")>>]
    ELSE IF parts[1] # W_bestmove THEN [game |-> g, ops |-> <<>>]
    ELSE IF Len(parts) < 2 THEN [game |-> g, ops |-> <<Stop("panic")>>]
    ELSE LET game_move == from_ptn(parts[2])
             wire_line == to_playtak(game_move.val, g.id, overflow_checks)
         IN  IF game_move.tag = "Panic" THEN [game |-> g, ops |-> <<Stop("panic")>>]
             ELSE IF game_move.tag = "Err" THEN [game |-> g, ops |-> <<Stop("err")>>]
             ELSE IF ~IsOk(wire_line) THEN [game |-> g, ops |-> <<Stop("panic")>>]
             ELSE [game |-> g,
                   ops |-> <<Write("server", wire_line.val), Push(game_move.val)>>]

\* a comparison that looks at the "Game#" prefix and not at the id
OtherGame_m(g, parts) == ~StartsWith(parts[1], <<"G", "a", "m", "e", "#">>)

\* parts[0] != format!("Game#{}", game.id)
OtherGame(g, parts) == parts[1] # GameTag(g.id)

\* an "Over" line that does not leave the loop
over_ops_m(parts, info_enabled) == <<>>

\* run_game, an "Over" line of this game: the INFO event reads parts[2], then
\* the loop is left and run_game returns Ok(())
over_ops(parts, info_enabled) ==
    IF Len(parts) < 3 /\ info_enabled THEN <<Stop("panic")>>
    ELSE <<Enter("GameOver"), Stop("ok")>>

\* a server branch whose clock update stores the white time only
server_line_m(g, parts, overflow_checks, info_enabled) ==
    IF Len(parts) < 1 THEN [game |-> g, ops |-> <<Stop("panic")>>]
    ELSE IF OtherGame(g, parts) THEN [game |-> g, ops |-> <<>>]
    ELSE IF Len(parts) < 2 THEN [game |-> g, ops |-> <<Stop("panic")>>]
    ELSE IF parts[2] = W_Time THEN
        IF Len(parts) < 3 THEN [game |-> g, ops |-> <<Stop("panic")>>]
        ELSE IF ~IsOk(parse_u32(parts[3])) THEN [game |-> g, ops |-> <<Stop("err")>>]
        ELSE IF Len(parts) < 4 THEN [game |-> g, ops |-> <<Stop("panic")>>]
        ELSE IF ~IsOk(parse_u32(parts[4])) THEN [game |-> g, ops |-> <<Stop("err")>>]
        ELSE [game |-> [g EXCEPT !.time = <<parse_u32(parts[3]).val, g.time[2]>>],
              ops |-> <<>>]
    ELSE IF parts[2] = W_P \/ parts[2] = W_M THEN
        LET game_move == from_playtak(parts)
            g2 == [g EXCEPT !.moves = Append(@, game_move.val)]
        IN  IF game_move.tag = "Panic" THEN [game |-> g, ops |-> <<Stop("panic")>>]
            ELSE IF game_move.tag = "Err" THEN [game |-> g, ops |-> <<Stop("err")>>]
            ELSE [game |-> g2, ops |-> replay_ops(g2, overflow_checks)]
    ELSE IF parts[2] = W_Over THEN [game |-> g, ops |-> over_ops(parts, info_enabled)]
    ELSE [game |-> g, ops |-> <<>>]

\* run_game, the server branch of select!.  info_enabled: whether the INFO
\* event that reads parts[2] of an Over line is evaluated.
server_line(g, parts, overflow_checks, info_enabled) ==
    IF Len(parts) < 1 THEN [game |-> g, ops |-> <<Stop("panic")>>]
    ELSE IF OtherGame(g, parts) THEN [game |-> g, ops |-> <<>>]
    ELSE IF Len(parts) < 2 THEN [game |-> g, ops |-> <<Stop("panic")>>]
    ELSE IF parts[2] = W_Time THEN
        IF Len(parts) < 3 THEN [game |-> g, ops |-> <<Stop("panic")>>]
        ELSE IF ~IsOk(parse_u32(parts[3])) THEN [game |-> g, ops |-> <<Stop("err")>>]
        ELSE IF Len(parts) < 4 THEN [game |-> g, ops |-> <<Stop("panic")>>]
        ELSE IF ~IsOk(parse_u32(parts[4])) THEN [game |-> g, ops |-> <<Stop("err")>>]
        ELSE [game |-> [g EXCEPT !.time = <<parse_u32(parts[3]).val, parse_u32(parts[4]).val>>],
              ops |-> <<>>]
    ELSE IF parts[2] = W_P \/ parts[2] = W_M THEN
        LET game_move == from_playtak(parts)
            g2 == [g EXCEPT !.moves = Append(@, game_move.val)]
        IN  IF game_move.tag = "Panic" THEN [game |-> g, ops |-> <<Stop("panic")>>]
            ELSE IF game_move.tag = "Err" THEN [game |-> g, ops |-> <<Stop("err")>>]
            ELSE [game |-> g2, ops |-> replay_ops(g2, overflow_checks)]
    ELSE IF parts[2] = W_Over THEN [game |-> g, ops |-> over_ops(parts, info_enabled)]
    ELSE [game |-> g, ops |-> <<>>]

\* a resume loop that replays the moves but leaves the clocks at the base time
resume_line_m(g, parts) ==
    IF Len(parts) < 2 THEN [game |-> g, ops |-> <<Stop("panic")>>]
    ELSE IF parts[2] = W_P \/ parts[2] = W_M THEN
        LET game_move == from_playtak(parts)
        IN  IF game_move.tag = "Panic" THEN [game |-> g, ops |-> <<Stop("panic")>>]
            ELSE IF game_move.tag = "Err" THEN [game |-> g, ops |-> <<Stop("err")>>]
            ELSE [game |-> [g EXCEPT !.moves = Append(@, game_move.val)], ops |-> <<>>]
    ELSE [game |-> g, ops |-> <<>>]

\* main_inner, the 'resume loop, for a line other than the acknowledgement
resume_line(g, parts) ==
    IF Len(parts) < 2 THEN [game |-> g, ops |-> <<Stop("panic")>>]
    ELSE IF parts[2] = W_P \/ parts[2] = W_M THEN
        LET game_move == from_playtak(parts)
        IN  IF game_move.tag = "Panic" THEN [game |-> g, ops |-> <<Stop("panic")>>]
            ELSE IF game_move.tag = "Err" THEN [game |-> g, ops |-> <<Stop("err")>>]
            ELSE [game |-> [g EXCEPT !.moves = Append(@, game_move.val)], ops |-> <<>>]
    ELSE IF parts[2] = W_Time THEN
        IF Len(parts) < 3 THEN [game |-> g, ops |-> <<Stop("panic")>>]
        ELSE IF ~IsOk(parse_u32(parts[3])) THEN [game |-> g, ops |-> <<Stop("err")>>]
        ELSE IF Len(parts) < 4 THEN [game |-> g, ops |-> <<Stop("panic")>>]
        ELSE IF ~IsOk(parse_u32(parts[4])) THEN [game |-> g, ops |-> <<Stop("err")>>]
        ELSE [game |-> [g EXCEPT !.time = <<parse_u32(parts[3]).val, parse_u32(parts[4]).val>>],
              ops |-> <<>>]
    ELSE [game |-> g, ops |-> <<>>]

\* an initialize_engine that returns without looking at the options
option_ops_m(g, options) == <<Enter("GameLoop")>>

\* initialize_engine after "teiok": the three validate_and_set_option calls
option_ops(g, options) ==
    LET komi == validate_and_set_option(options, W_HalfKomi, g.half_komi, 0)
        flat == validate_and_set_option(options, W_Flatstones, g.flatstones,
                                        flatstones_for_size(g.size))
        caps == validate_and_set_option(options, W_Capstones, g.capstones,
                                        capstones_for_size(g.size))
    IN  IF ~IsOk(komi) THEN <<Stop("err")>>
        ELSE Writes("engine", komi.val) \o
             (IF flatstones_for_size(g.size) < 0 THEN <<Stop("panic")>>
              ELSE IF ~IsOk(flat) THEN <<Stop("err")>>
              ELSE Writes("engine", flat.val) \o
                   (IF ~IsOk(caps) THEN <<Stop("err")>>
                    ELSE Writes("engine", caps.val) \o <<Enter("GameLoop")>>))

\* whether every validate_and_set_option call of option_ops succeeds
options_accepted(g, options) ==
    LET ops == option_ops(g, options)
    IN  ops # <<>> /\ ops[Len(ops)].op = "enter"

\* the operations up to the next await: pushes, phase changes and stops are
\* carried out, a write is left pending
RECURSIVE Settle(_, _, _, _)
Settle(g, ph, res, ops) ==
    IF res # "running" THEN [game |-> g, phase |-> ph, result |-> res, pending |-> <<>>]
    ELSE IF ops = <<>> THEN [game |-> g, phase |-> ph, result |-> res, pending |-> <<>>]
    ELSE IF ops[1].op = "write" THEN [game |-> g, phase |-> ph, result |-> res, pending |-> ops]
    ELSE IF ops[1].op = "push"
        THEN Settle([g EXCEPT !.moves = Append(@, ops[1].move)], ph, res, Tail(ops))
    ELSE IF ops[1].op = "enter" THEN Settle(g, ops[1].phase, res, Tail(ops))
    ELSE Settle(g, ph, ops[1].result, <<>>)

----------------------------------------------------------------------------
(* main.rs: main_inner, initialize_engine and run_game as a state machine.
   The main task is at the read named by pc when no write is pending. *)

NoLine == [src |-> "none", line |-> <<>>]

\* the engine and PlayTak, the two sources of lines
Sources == {"engine", "server"}

\* no source has written anything and nothing has been read
NothingRead ==
    /\ produced = [src \in Sources |-> <<>>]
    /\ stream = [src \in Sources |-> <<>>]
    /\ linebuf = [src \in Sources |-> <<>>]
    /\ processed = [src \in Sources |-> <<>>]

\* no function call is being studied, or the call has not returned
NoCall == [fn |-> "none"]

Running == result = "running"

\* a select that yields a line while the handler of the last one is unfinished
AtWait_m == TRUE

\* the main task is waiting for a line: the handler of the last one is done
AtWait == pending = <<>>

AtRead(p) == Running /\ AtWait /\ pc = p

PushCount(ops) == Cardinality({i \in 1..Len(ops) : ops[i].op = "push"})

\* the history stays within the explored length
WithinBound(out) == Len(out.game.moves) + PushCount(out.ops) <= MaxMoves

\* the main task has read `line` from `src`; its handler yields `out` and,
\* unless it ends the run, leaves the task at the read `next`
Handle(src, line, out, next) ==
    LET s == Settle(out.game, phase, "running", out.ops)
    IN  /\ cur' = [src |-> src, line |-> line]
        /\ game' = s.game
        /\ phase' = s.phase
        /\ result' = s.result
        /\ pending' = s.pending
        /\ pc' = IF s.result = "running" THEN next ELSE pc
        /\ engineSent' = <<>>
        /\ serverSent' = <<>>

Init ==
    /\ args \in ArgCommands
    /\ phase = "Connect"
    /\ pc = "connect"
    /\ result = "running"
    /\ game = NoGame
    /\ seeks = <<>>
    /\ engine_options = <<>>
    /\ engineLaunched = FALSE
    /\ cur = NoLine
    /\ pending = <<>>
    /\ engineSent = <<>>
    /\ serverSent = <<>>
    /\ pingState = "none"
    /\ wire = <<>>
    /\ wmain = <<>>
    /\ wping = <<>>
    /\ wlines = {}
    /\ NothingRead
    /\ call = NoCall
    /\ ret = NoCall

\* TcpStream::connect
Connect ==
    /\ AtRead("connect")
    /\ \/ phase' = "Handshake" /\ pc' = "banner1" /\ UNCHANGED result
       \/ result' = "io_err" /\ UNCHANGED <<phase, pc>>
    /\ UNCHANGED <<mux, call, ret, args, game, seeks, engine_options, engineLaunched, cur, pending,
                   engineSent, serverSent, pingState, wire, wmain, wping, wlines>>

\* assert_response!(reader, "Welcome!")
ReadBanner1 ==
    /\ AtRead("banner1")
    /\ \E line \in {L_Welcome, L_Unexpected} :
           Handle("server", line,
                  [game |-> game,
                   ops |-> IF line # L_Welcome THEN <<Stop("err")>> ELSE <<>>],
                  "banner2")
    /\ UNCHANGED <<mux, call, ret, args, seeks, engine_options, engineLaunched, pingState,
                   wire, wmain, wping, wlines>>

\* a second banner that is read and not compared
ReadBanner2_m ==
    /\ AtRead("banner2")
    /\ \E line \in {L_LoginOrRegister, L_Welcome} :
           Handle("server", line,
                  [game |-> game, ops |-> <<Write("server", L_Client)>>],
                  "ack")
    /\ UNCHANGED <<mux, call, ret, args, seeks, engine_options, engineLaunched, pingState,
                   wire, wmain, wping, wlines>>

\* assert_response!(reader, "Login or Register"); write "Client playtak-tei"
ReadBanner2 ==
    /\ AtRead("banner2")
    /\ \E line \in {L_LoginOrRegister, L_Welcome} :
           Handle("server", line,
                  [game |-> game,
                   ops |-> IF line # L_LoginOrRegister THEN <<Stop("err")>>
                           ELSE <<Write("server", L_Client)>>],
                  "ack")
    /\ UNCHANGED <<mux, call, ret, args, seeks, engine_options, engineLaunched, pingState,
                   wire, wmain, wping, wlines>>

\* assert_response!(reader, "OK"); write the login string
ReadAck ==
    /\ AtRead("ack")
    /\ \E line \in {L_OK, L_Unexpected} :
           Handle("server", line,
                  [game |-> game,
                   ops |-> IF line # L_OK THEN <<Stop("err")>>
                           ELSE <<Enter("Authenticate"),
                                  Write("server", to_login_string(args.login))>>],
                  "auth")
    /\ UNCHANGED <<mux, call, ret, args, seeks, engine_options, engineLaunched, pingState,
                   wire, wmain, wping, wlines>>

\* a login that does not know the resumption line
auth_response_m(parts) ==
    IF parts = L_AuthFailure THEN [game |-> NoGame, ops |-> <<Stop("err")>>, next |-> "auth"]
    ELSE IF ~LineStartsWith1(parts, W_Welcome)
        THEN [game |-> NoGame, ops |-> <<Stop("err")>>, next |-> "auth"]
    ELSE IF Len(parts) < 2 \/ ~EndsWith(parts[2], <<"!">>)
        THEN [game |-> NoGame, ops |-> <<Stop("panic")>>, next |-> "auth"]
    ELSE [game |-> NoGame, ops |-> <<Enter("SeekNegotiation")>>, next |-> "seeks"]

\* main_inner: what the response to the login decides
auth_response(parts) ==
    IF parts = L_AuthFailure THEN [game |-> NoGame, ops |-> <<Stop("err")>>, next |-> "auth"]
    ELSE IF LineStartsWith2(parts, W_Game, W_Start) THEN
        LET g == Game_from_str(parts)
        IN  IF g.tag = "Panic" THEN [game |-> NoGame, ops |-> <<Stop("panic")>>, next |-> "auth"]
            ELSE IF g.tag = "Err" THEN [game |-> NoGame, ops |-> <<Stop("err")>>, next |-> "auth"]
            ELSE [game |-> g.val, ops |-> <<Enter("Resume")>>, next |-> "resume"]
    ELSE IF ~LineStartsWith1(parts, W_Welcome)
        THEN [game |-> NoGame, ops |-> <<Stop("err")>>, next |-> "auth"]
    ELSE IF Len(parts) < 2 \/ ~EndsWith(parts[2], <<"!">>)
        THEN [game |-> NoGame, ops |-> <<Stop("panic")>>, next |-> "auth"]
    ELSE [game |-> NoGame, ops |-> <<Enter("SeekNegotiation")>>, next |-> "seeks"]

AuthLines ==
    {L_AuthFailure, L_Unexpected, L_WelcomeUser, L_WelcomeBare} \cup GameStartLines

ReadAuth ==
    /\ AtRead("auth")
    /\ \E line \in AuthLines :
           LET out == auth_response(line)
           IN  Handle("server", line, out, out.next)
    /\ UNCHANGED <<mux, call, ret, args, seeks, engine_options, engineLaunched, pingState,
                   wire, wmain, wping, wlines>>

\* initialize_engine up to its first read: the command line names the engine
\* (unreachable!() for the list command), the process is spawned, "tei" is
\* written
launch_ops(a, spawned) ==
    IF a.command = "List" THEN <<Stop("panic")>>
    ELSE IF ~spawned THEN <<Stop("io_err")>>
    ELSE <<Enter("EngineInit"), Write("engine", L_tei)>>

Launched(a, spawned) == a.command # "List" /\ spawned

ResumeLines == {L_Resumed, L_OK} \cup MoveLines \cup TimeLines

\* the 'resume loop of main_inner
ResumeRead ==
    /\ AtRead("resume")
    /\ \E line \in ResumeLines, spawned \in BOOLEAN :
           IF line = L_Resumed
           THEN /\ Handle("server", line,
                          [game |-> game, ops |-> launch_ops(args, spawned)], "tei")
                /\ engineLaunched' = Launched(args, spawned)
           ELSE /\ spawned
                /\ WithinBound(resume_line(game, line))
                /\ Handle("server", line, resume_line(game, line), "resume")
                /\ UNCHANGED engineLaunched
    /\ UNCHANGED <<mux, call, ret, args, seeks, engine_options, pingState,
                   wire, wmain, wping, wlines>>

\* a list mode that sends "quit" and then goes on to wait for a game
seek_ops_m(a, ss) ==
    IF a.command = "List" THEN <<Write("server", L_quit)>>
    ELSE IF a.command = "Seek" THEN <<Write("server", to_seek_string(a.seek))>>
    ELSE IF a.seek_id >= 0 THEN <<Write("server", <<W_Accept, fmt_u32(a.seek_id)>>)>>
    ELSE IF FindSeek(ss, a.opponent) > 0
        THEN <<Write("server", <<W_Accept, fmt_u32(ss[FindSeek(ss, a.opponent)].id)>>)>>
    ELSE <<Stop("err")>>

\* main_inner after the seek list: report and quit, or accept or post a seek
seek_ops(a, ss) ==
    IF a.command = "List" THEN <<Write("server", L_quit), Stop("ok")>>
    ELSE IF a.command = "Seek" THEN <<Write("server", to_seek_string(a.seek))>>
    ELSE IF a.seek_id >= 0 THEN <<Write("server", <<W_Accept, fmt_u32(a.seek_id)>>)>>
    ELSE IF FindSeek(ss, a.opponent) > 0
        THEN <<Write("server", <<W_Accept, fmt_u32(ss[FindSeek(ss, a.opponent)].id)>>)>>
    ELSE <<Stop("err")>>

\* task::spawn(ping(..)) is reached
spawns_ping(a) == a.command # "List"

\* the seek loop of main_inner
SeeksRead ==
    /\ AtRead("seeks")
    /\ \E line \in SeekLines \cup {L_Unexpected} :
           IF LineStartsWith2(line, W_Seek, W_new)
           THEN LET seek == Seek_from_str(line)
                IN  /\ IsOk(seek) => Len(seeks) < MaxSeeks
                    /\ Handle("server", line,
                              [game |-> game,
                               ops |-> IF seek.tag = "Panic" THEN <<Stop("panic")>>
                                       ELSE IF seek.tag = "Err" THEN <<Stop("err")>>
                                       ELSE <<>>],
                              "seeks")
                    /\ seeks' = IF IsOk(seek) THEN Append(seeks, seek.val) ELSE seeks
                    /\ UNCHANGED pingState
           ELSE /\ Handle("server", line, [game |-> game, ops |-> seek_ops(args, seeks)],
                          "wait_start")
                /\ pingState' = IF spawns_ping(args) THEN "running" ELSE pingState
                /\ UNCHANGED seeks
    /\ UNCHANGED <<mux, call, ret, args, engine_options, engineLaunched, wire, wmain, wping, wlines>>

\* a wait for the game that does not know the refusal line
WaitStartRead_m ==
    /\ AtRead("wait_start")
    /\ \E line \in GameStartLines \cup {<<W_NOK>>, L_Unexpected}, spawned \in BOOLEAN :
           IF LineStartsWith2(line, W_Game, W_Start)
           THEN LET g == Game_from_str(line)
                IN  IF IsOk(g)
                    THEN /\ Handle("server", line,
                                   [game |-> g.val, ops |-> launch_ops(args, spawned)], "tei")
                         /\ engineLaunched' = Launched(args, spawned)
                    ELSE /\ spawned
                         /\ Handle("server", line,
                                   [game |-> game,
                                    ops |-> IF g.tag = "Panic" THEN <<Stop("panic")>>
                                            ELSE <<Stop("err")>>],
                                   "wait_start")
                         /\ UNCHANGED engineLaunched
           ELSE /\ spawned
                /\ Handle("server", line, [game |-> game, ops |-> <<>>], "wait_start")
                /\ UNCHANGED engineLaunched
    /\ UNCHANGED <<mux, call, ret, args, seeks, engine_options, pingState,
                   wire, wmain, wping, wlines>>

\* main_inner: the wait for the game after the seek is posted or accepted
WaitStartRead ==
    /\ AtRead("wait_start")
    /\ \E line \in GameStartLines \cup {<<W_NOK>>, L_Unexpected}, spawned \in BOOLEAN :
           IF line = <<W_NOK>>
           THEN /\ spawned
                /\ Handle("server", line, [game |-> game, ops |-> <<Stop("err")>>], "wait_start")
                /\ UNCHANGED engineLaunched
           ELSE IF LineStartsWith2(line, W_Game, W_Start)
           THEN LET g == Game_from_str(line)
                IN  IF IsOk(g)
                    THEN /\ Handle("server", line,
                                   [game |-> g.val, ops |-> launch_ops(args, spawned)], "tei")
                         /\ engineLaunched' = Launched(args, spawned)
                    ELSE /\ spawned
                         /\ Handle("server", line,
                                   [game |-> game,
                                    ops |-> IF g.tag = "Panic" THEN <<Stop("panic")>>
                                            ELSE <<Stop("err")>>],
                                   "wait_start")
                         /\ UNCHANGED engineLaunched
           ELSE /\ spawned
                /\ Handle("server", line, [game |-> game, ops |-> <<>>], "wait_start")
                /\ UNCHANGED engineLaunched
    /\ UNCHANGED <<mux, call, ret, args, seeks, engine_options, pingState,
                   wire, wmain, wping, wlines>>


\* initialize_engine: what one line of the engine's answer to "tei" does
init_line(g, options, parts, overflow_checks) ==
    IF LineStartsWith2(parts, W_id, W_name) THEN
        \* line.strip_prefix("id name ").unwrap()
        IF parts[2] = W_name /\ Len(parts) >= 3
        THEN [options |-> options, ops |-> <<>>, next |-> "tei"]
        ELSE [options |-> options, ops |-> <<Stop("panic")>>, next |-> "tei"]
    ELSE IF LineStartsWith1(parts, W_option) /\ LineContains2(parts, W_type, W_spin) THEN
        LET option == SpinOption_from_str(parts)
        IN  IF option.tag = "Panic"
            THEN [options |-> options, ops |-> <<Stop("panic")>>, next |-> "tei"]
            ELSE IF option.tag = "Err"
            THEN [options |-> options, ops |-> <<Stop("err")>>, next |-> "tei"]
            ELSE [options |-> Append(options, option.val), ops |-> <<>>, next |-> "tei"]
    ELSE IF parts = L_teiok THEN
        [options |-> options,
         ops |-> option_ops(g, options) \o
                 (IF options_accepted(g, options)
                  THEN priming_ops(g, overflow_checks) ELSE <<>>),
         next |-> "select"]
    ELSE [options |-> options, ops |-> <<>>, next |-> "tei"]

EngineInitLines == OptionLines \cup {L_IdName, L_teiok, L_Unexpected}

EngineInitRead ==
    /\ AtRead("tei")
    /\ \E line \in EngineInitLines :
           \E out \in {init_line(game, engine_options, line, overflow_checks) :
                          overflow_checks \in BOOLEAN} :
               /\ Len(out.options) <= MaxOptions
               /\ Handle("engine", line, [game |-> game, ops |-> out.ops], out.next)
               /\ engine_options' = IF phase' = "GameLoop" THEN <<>> ELSE out.options
    /\ UNCHANGED <<mux, call, ret, args, seeks, engineLaunched, pingState,
                   wire, wmain, wping, wlines>>

\* run_game: select! yields a line of the engine
SelectEngine ==
    /\ AtRead("select")
    /\ \E line \in EngineGameLines :
           \E out \in {engine_line(game, line, overflow_checks) :
                          overflow_checks \in BOOLEAN} :
               /\ WithinBound(out)
               /\ Handle("engine", line, out, "select")
    /\ UNCHANGED <<mux, call, ret, args, seeks, engine_options, engineLaunched, pingState,
                   wire, wmain, wping, wlines>>

\* run_game: select! yields a line of the server
SelectServer ==
    /\ AtRead("select")
    /\ \E line \in ServerGameLines :
           \E out \in {server_line(game, line, overflow_checks, info_enabled) :
                          overflow_checks \in BOOLEAN, info_enabled \in BOOLEAN} :
               /\ WithinBound(out)
               /\ Handle("server", line, out, "select")
    /\ UNCHANGED <<mux, call, ret, args, seeks, engine_options, engineLaunched, pingState,
                   wire, wmain, wping, wlines>>

ServerReads == {"banner1", "banner2", "ack", "auth", "resume", "seeks", "wait_start", "select"}
EngineReads == {"tei", "select"}

\* read: the server's stream ends or fails
ServerReadFails ==
    /\ Running /\ AtWait /\ pc \in ServerReads
    /\ result' = "io_err"
    /\ UNCHANGED <<mux, call, ret, args, phase, pc, game, seeks, engine_options, engineLaunched, cur,
                   pending, engineSent, serverSent, pingState,
                   wire, wmain, wping, wlines>>

\* read: the engine's stream ends or fails
EngineReadFails ==
    /\ Running /\ AtWait /\ pc \in EngineReads
    /\ result' = "io_err"
    /\ UNCHANGED <<mux, call, ret, args, phase, pc, game, seeks, engine_options, engineLaunched, cur,
                   pending, engineSent, serverSent, pingState,
                   wire, wmain, wping, wlines>>

\* write: the pending write of the main task completes, and the task runs on
\* to its next await
DoWrite ==
    /\ Running /\ pending # <<>>
    /\ LET w == pending[1]
           s == Settle(game, phase, "running", Tail(pending))
       IN  /\ engineSent' = IF w.dst = "engine" THEN Append(engineSent, w.line) ELSE engineSent
           /\ serverSent' = IF w.dst = "server" THEN Append(serverSent, w.line) ELSE serverSent
           /\ game' = s.game
           /\ phase' = s.phase
           /\ result' = s.result
           /\ pending' = s.pending
           /\ engine_options' = IF s.phase = "GameLoop" THEN <<>> ELSE engine_options
    /\ UNCHANGED <<mux, call, ret, args, pc, seeks, engineLaunched, cur, pingState,
                   wire, wmain, wping, wlines>>

\* a failed write that is passed over: the task runs on to its next await
WriteFails_m ==
    /\ Running /\ pending # <<>>
    /\ LET s == Settle(game, phase, "running", Tail(pending))
       IN  /\ game' = s.game
           /\ phase' = s.phase
           /\ result' = s.result
           /\ pending' = s.pending
    /\ UNCHANGED <<mux, call, ret, args, pc, seeks, engine_options, engineLaunched, cur, engineSent,
                   serverSent, pingState, wire, wmain, wping, wlines>>

\* write: the pending write of the main task fails, and `?` returns the error
WriteFails ==
    /\ Running /\ pending # <<>>
    /\ result' = "io_err"
    /\ pending' = <<>>
    /\ UNCHANGED <<mux, call, ret, args, phase, pc, game, seeks, engine_options, engineLaunched, cur,
                   engineSent, serverSent, pingState, wire, wmain, wping, wlines>>

\* ping: the write fails and the task returns
PingFails ==
    /\ Running /\ pingState = "running"
    /\ pingState' = "ended"
    /\ UNCHANGED <<mux, call, ret, args, phase, pc, result, game, seeks, engine_options, engineLaunched,
                   cur, pending, engineSent, serverSent,
                   wire, wmain, wping, wlines>>

Next ==
    \/ Connect
    \/ ReadBanner1
    \/ ReadBanner2
    \/ ReadAck
    \/ ReadAuth
    \/ ResumeRead
    \/ SeeksRead
    \/ WaitStartRead
    \/ EngineInitRead
    \/ SelectEngine
    \/ SelectServer
    \/ ServerReadFails
    \/ EngineReadFails
    \/ DoWrite
    \/ WriteFails
    \/ PingFails

Spec == Init /\ [][Next]_vars


----------------------------------------------------------------------------
(* Properties of the relay loop (run_game). *)

\* the line just read is a bestmove whose move decodes under the algebraic codec
DecodableBestmove(line) ==
    /\ Len(line) >= 2
    /\ line[1] = W_bestmove
    /\ IsOk(from_ptn(line[2]))

\* the line just read is a P or M line of game g that decodes under the wire codec
DecodableOwnMove(g, line) ==
    /\ Len(line) >= 2
    /\ line[1] = GameTag(g.id)
    /\ (line[2] = W_P \/ line[2] = W_M)
    /\ IsOk(from_playtak(line))

\* C1: in GameLoop a server line whose first token is not "Game#<id>" of the
\* session's game leaves the Game unchanged, queues and sends nothing to the
\* engine or the server, and leaves the loop running in GameLoop at its select
C1_OtherGameLineIgnored ==
    [][ (/\ pc = "select" /\ cur'.src = "server"
         /\ Len(cur'.line) >= 1 /\ cur'.line[1] # GameTag(game.id)
         /\ SelectServer)
        => /\ game' = game
           /\ phase = "GameLoop" /\ phase' = "GameLoop"
           /\ pc' = "select"
           /\ result' = "running"
           /\ pending' = <<>>
           /\ engineSent' = <<>>
           /\ serverSent' = <<>> ]_vars

\* a well-formed move, Time or Over line of another game has been processed
\* while a game with moves in its history was running
C1_Witness ==
    /\ phase = "GameLoop"
    /\ cur.src = "server"
    /\ cur.line \in MoveLines \cup TimeLines \cup OverLines
    /\ cur.line[1] # GameTag(game.id)
    /\ Len(game.moves) >= 1
    /\ result = "running"
    /\ pending = <<>>

\* C2: in GameLoop every "bestmove <m>" whose <m> decodes makes the relay send
\* exactly one wire line to the server, tagged with the game id and encoding
\* the same move, and append exactly that move to the history; nothing is
\* written to the engine and the clocks are unchanged
C2_BestmoveRelayed ==
    [][ /\ (/\ pc = "select" /\ cur'.src = "engine"
            /\ DecodableBestmove(cur'.line)
            /\ SelectEngine)
            => /\ result' = "running"
               /\ game' = game
               /\ Len(pending') = 2
               /\ pending'[1].op = "write"
               /\ pending'[1].dst = "server"
               /\ pending'[1].line[1] = GameTag(game.id)
               /\ from_playtak(pending'[1].line) = from_ptn(cur'.line[2])
               /\ pending'[2] = Push(from_ptn(cur'.line[2]).val)
        /\ (DoWrite /\ phase = "GameLoop" /\ cur.src = "engine"
                    /\ DecodableBestmove(cur.line))
            => /\ serverSent' = <<pending[1].line>>
               /\ engineSent' = <<>>
               /\ game'.moves = Append(game.moves, from_ptn(cur.line[2]).val)
               /\ game'.time = game.time
               /\ pending' = <<>> ]_vars

\* "bestmove h1>" decodes to a spread east from h1; the run has ended in a
\* panic, nothing was sent to the server and the history did not grow
C2_Witness ==
    /\ phase = "GameLoop"
    /\ cur = [src |-> "engine", line |-> <<W_bestmove, <<"h", "1", ">">>>>]
    /\ from_ptn(cur.line[2]) = Ok(Spread(7, 0, "East", <<1>>))
    /\ result = "panic"
    /\ serverSent = <<>>
    /\ game.moves = <<>>


\* the decimal text of seconds * 1000
Milliseconds(seconds) == IF seconds = 0 THEN <<"0">> ELSE fmt_u32(seconds) \o <<"0", "0", "0">>

\* line is "position startpos moves" followed by the moves in algebraic notation
IsPositionOf(line, moves) ==
    /\ Len(line) = 3 + Len(moves)
    /\ SubSeq(line, 1, 3) = <<W_position, W_startpos, W_moves>>
    /\ \A i \in 1..Len(moves) : from_ptn(line[3 + i]) = Ok(moves[i])

\* "go wtime <w> btime <b>" with the clocks in milliseconds
GoLine(time) ==
    <<W_go, W_wtime, Milliseconds(time[1]), W_btime, Milliseconds(time[2])>>

\* C3: in GameLoop every P or M line of the session's game that decodes under
\* the wire codec appends the move to the history, and the relay then sends
\* the engine "position startpos moves ..." listing the entire history in
\* algebraic notation, then "go wtime <w> btime <b>" with the current clocks
\* in milliseconds; nothing is sent to the server
C3_ServerMoveReplayed ==
    [][ /\ (/\ pc = "select" /\ cur'.src = "server"
            /\ DecodableOwnMove(game, cur'.line)
            /\ SelectServer)
            => /\ result' = "running"
               /\ game'.moves = Append(game.moves, from_playtak(cur'.line).val)
               /\ game'.time = game.time
               /\ Len(pending') = 2
               /\ pending'[1].op = "write" /\ pending'[1].dst = "engine"
               /\ pending'[2].op = "write" /\ pending'[2].dst = "engine"
               /\ IsPositionOf(pending'[1].line, game'.moves)
               /\ pending'[2].line = GoLine(game.time)
        /\ (DoWrite /\ phase = "GameLoop" /\ cur.src = "server"
                    /\ DecodableOwnMove([id |-> game.id], cur.line))
            => /\ serverSent' = <<>>
               /\ engineSent' = Append(engineSent, pending[1].line)
               /\ game' = game
               /\ result' = "running" ]_vars

\* the spread "Game#1 M A1 A3 10 2" of the session's game has decoded and the
\* run has ended in a panic with nothing sent to the engine
C3_Witness ==
    /\ phase = "GameLoop"
    /\ cur.src = "server"
    /\ cur.line = <<GameTag(game.id), W_M, <<"A", "1">>, <<"A", "3">>, <<"1", "0">>, <<"2">>>>
    /\ from_playtak(cur.line) = Ok(Spread(0, 0, "North", <<10, 2>>))
    /\ result = "panic"
    /\ engineSent = <<>>


\* C4: when GameLoop processes "Game#<id> Over <result>" of the session's game
\* it moves to GameOver and the run ends successfully; from then on no line
\* is processed, the Game is not mutated and nothing is written
C4_OverIsTerminal ==
    [][ /\ (/\ pc = "select" /\ cur'.src = "server"
            /\ Len(cur'.line) >= 3 /\ cur'.line[1] = GameTag(game.id)
            /\ cur'.line[2] = W_Over
            /\ SelectServer)
            => /\ phase' = "GameOver"
               /\ result' = "ok"
               /\ game' = game
               /\ pending' = <<>>
               /\ engineSent' = <<>>
               /\ serverSent' = <<>>
        /\ phase = "GameOver" => vars' = vars ]_vars

\* a game with moves in its history has ended with the Over line of its id
C4_Witness ==
    /\ phase = "GameOver"
    /\ result = "ok"
    /\ cur.src = "server"
    /\ cur.line \in OverLines
    /\ cur.line[1] = GameTag(game.id)
    /\ Len(game.moves) >= 1

\* the order of the phases
PhaseOrder ==
    { <<"Connect", "Handshake">>, <<"Handshake", "Authenticate">>,
      <<"Authenticate", "Resume">>, <<"Authenticate", "SeekNegotiation">>,
      <<"Resume", "EngineInit">>, <<"SeekNegotiation", "EngineInit">>,
      <<"EngineInit", "GameLoop">>, <<"GameLoop", "GameOver">> }

\* Option Negotiation succeeds for a setting: the engine advertises it, or the
\* requested value is the assumed default
Negotiated(options, name, value, default) ==
    (\E i \in 1..Len(options) : options[i].name = name) \/ value = default

\* C5: the phase only moves one step forward along Connect, Handshake,
\* Authenticate, Resume or SeekNegotiation, EngineInit, GameLoop, GameOver;
\* the engine is launched only once a Game exists; GameLoop is entered only
\* when Option Negotiation has succeeded for HalfKomi, Flatstones and Capstones
C5_PhasesForward ==
    [][ /\ phase' # phase => <<phase, phase'>> \in PhaseOrder
        /\ engineLaunched' => game' # NoGame
        /\ (phase' = "GameLoop" /\ phase # "GameLoop")
            => /\ Negotiated(engine_options, W_HalfKomi, game.half_komi, 0)
               /\ Negotiated(engine_options, W_Flatstones, game.flatstones,
                             flatstones_for_size(game.size))
               /\ Negotiated(engine_options, W_Capstones, game.capstones,
                             capstones_for_size(game.size)) ]_vars

\* GameLoop has just been entered after a negotiation that set an option the
\* engine advertises and passed over one it does not advertise
C5_Witness ==
    /\ phase = "GameLoop"
    /\ cur = [src |-> "engine", line |-> L_teiok]
    /\ engineLaunched
    /\ Len(engineSent) >= 1
    /\ engineSent[1][1] = W_setoption


\* it is this side's turn: white with an even history, black with an odd one
OwnTurn(g) ==
    \/ g.color = W_white /\ Len(g.moves) % 2 = 0
    \/ g.color = W_black /\ Len(g.moves) % 2 = 1

\* C6: at entry to GameLoop, if it is this side's turn exactly teinewgame
\* <size>, position (full history) and go (both clocks in milliseconds) are
\* to be written to the engine, in that order; otherwise nothing is written
\* before the first line is processed
C6_PrimedIffOwnTurn ==
    [][ (phase' = "GameLoop" /\ phase # "GameLoop")
        => /\ result' = "running"
           /\ game' = game
           /\ IF OwnTurn(game)
              THEN /\ Len(pending') = 3
                   /\ \A i \in 1..3 : pending'[i].op = "write" /\ pending'[i].dst = "engine"
                   /\ pending'[1].line = <<W_teinewgame, fmt_u32(game.size)>>
                   /\ IsPositionOf(pending'[2].line, game.moves)
                   /\ pending'[3].line = GoLine(game.time)
              ELSE pending' = <<>> ]_vars

\* a resumed game whose history holds the spread with a drop of 10 was entered
\* on this side's turn: teinewgame was written, then the run ended in a panic
C6_Witness ==
    /\ phase = "GameLoop"
    /\ cur = [src |-> "engine", line |-> L_teiok]
    /\ OwnTurn(game)
    /\ game.moves = <<Spread(0, 0, "North", <<10, 2>>)>>
    /\ result = "panic"
    /\ Len(engineSent) >= 1
    /\ engineSent[Len(engineSent)] = <<W_teinewgame, fmt_u32(game.size)>>

\* C7: whenever GameLoop runs, through SeekNegotiation or through Resume, the
\* keepalive task has been started
C7_KeepaliveStarted == phase = "GameLoop" => pingState # "none"

\* GameLoop is running a resumed game (no seek list was read) and no
\* keepalive task was ever spawned
C7_Witness ==
    /\ phase = "GameLoop"
    /\ result = "running"
    /\ seeks = <<>>
    /\ pingState = "none"
    /\ cur.src = "server"
    /\ Len(game.moves) >= 1


----------------------------------------------------------------------------
(* main.rs: the two writers of the server connection.  ping owns a clone of
   the TcpStream the main task writes to; each task's write is write_all,
   which hands the bytes to the socket in one or more poll_write calls, each
   taking at least one byte.  Nothing orders the calls of the two tasks. *)

MaxWire == 17   \* the most bytes explored on the connection

\* format!: the tokens separated by one space, and the "\n" that ends a line
RECURSIVE line_bytes(_)
line_bytes(line) ==
    IF line = <<>> THEN <<"\n">>
    ELSE IF Len(line) = 1 THEN line[1] \o <<"\n">>
    ELSE line[1] \o <<" ">> \o line_bytes(Tail(line))

\* the game of the relay loop whose writes are followed
WireGame == Game_from_str(CHOOSE l \in GameStartLines : IsOk(Game_from_str(l))
                                                        /\ Game_from_str(l).val.id = 1).val

\* the lines run_game writes to the server for the engine's moves
MainWireLines ==
    { engine_line(WireGame, <<W_bestmove, m>>, TRUE).ops[1].line :
          m \in {<<"a", "1">>, <<"a", "1", "+">>} }

InitWire ==
    /\ args = CHOOSE a \in ArgCommands : a.command = "Accept" /\ a.seek_id >= 0
    /\ phase = "GameLoop"
    /\ pc = "select"
    /\ result = "running"
    /\ game = WireGame
    /\ seeks = <<>>
    /\ engine_options = <<>>
    /\ engineLaunched = TRUE
    /\ cur = NoLine
    /\ pending = <<>>
    /\ engineSent = <<>>
    /\ serverSent = <<>>
    /\ pingState = "running"
    /\ wire = <<>>
    /\ wmain = <<>>
    /\ wping = <<>>
    /\ wlines = {}
    /\ NothingRead
    /\ call = NoCall
    /\ ret = NoCall

\* write(&mut playtak_writer, ..) of the main task: write_all begins
MainWriteBegins ==
    /\ wmain = <<>>
    /\ \E line \in MainWireLines :
           /\ Len(wire) + Len(wping) + Len(line_bytes(line)) <= MaxWire
           /\ wmain' = line_bytes(line)
           /\ wlines' = wlines \cup {line}
    /\ UNCHANGED <<mux, call, ret, args, phase, pc, result, game, seeks, engine_options, engineLaunched,
                   cur, pending, engineSent, serverSent, pingState, wire, wping>>

\* one poll_write of the main task's write_all takes n bytes
MainPollWrite ==
    /\ wmain # <<>>
    /\ \E n \in 1..Len(wmain) :
           /\ wire' = wire \o SubSeq(wmain, 1, n)
           /\ wmain' = SubSeq(wmain, n + 1, Len(wmain))
    /\ UNCHANGED <<mux, call, ret, args, phase, pc, result, game, seeks, engine_options, engineLaunched,
                   cur, pending, engineSent, serverSent, pingState, wping, wlines>>

\* ping: write(&mut writer, "PING\n") after the sleep: write_all begins
PingWriteBegins ==
    /\ pingState = "running"
    /\ wping = <<>>
    /\ Len(wire) + Len(wmain) + Len(line_bytes(L_PING)) <= MaxWire
    /\ wping' = line_bytes(L_PING)
    /\ wlines' = wlines \cup {L_PING}
    /\ UNCHANGED <<mux, call, ret, args, phase, pc, result, game, seeks, engine_options, engineLaunched,
                   cur, pending, engineSent, serverSent, pingState, wire, wmain>>

\* one poll_write of ping's write_all takes n bytes
PingPollWrite ==
    /\ wping # <<>>
    /\ \E n \in 1..Len(wping) :
           /\ wire' = wire \o SubSeq(wping, 1, n)
           /\ wping' = SubSeq(wping, n + 1, Len(wping))
    /\ UNCHANGED <<mux, call, ret, args, phase, pc, result, game, seeks, engine_options, engineLaunched,
                   cur, pending, engineSent, serverSent, pingState, wmain, wlines>>

NextWire ==
    \/ MainWriteBegins
    \/ MainPollWrite
    \/ PingWriteBegins
    \/ PingPollWrite

SpecWire == InitWire /\ [][NextWire]_vars

\* bytes is a sequence of whole lines of `lines`, the last possibly unfinished
RECURSIVE WholeLines(_, _)
WholeLines(bytes, lines) ==
    \/ bytes = <<>>
    \/ \E l \in lines :
           LET b == line_bytes(l)
           IN  IF Len(bytes) >= Len(b)
               THEN /\ SubSeq(bytes, 1, Len(b)) = b
                    /\ WholeLines(SubSeq(bytes, Len(b) + 1, Len(bytes)), lines)
               ELSE bytes = SubSeq(b, 1, Len(bytes))

\* C8: the bytes the server receives are a sequence of whole lines: the bytes
\* of a PING line are never inside the bytes of a line of the main task, nor
\* the other way round
C8_WritesSerialized == WholeLines(wire, wlines)

\* part of a move line, then part of PING, have reached the server
C8_Witness ==
    /\ wmain # <<>>
    /\ wping # <<>>
    /\ Len(wping) < Len(line_bytes(L_PING))
    /\ Len(wire) > Len(line_bytes(L_PING)) - Len(wping)
    /\ ~WholeLines(wire, wlines)


\* every effect of the line last processed by the relay loop is in place
EffectsComplete ==
    /\ pending = <<>>
    /\ (cur.src = "server" /\ DecodableOwnMove([id |-> game.id], cur.line))
        => /\ Len(engineSent) = 2
           /\ serverSent = <<>>
           /\ game.moves # <<>>
           /\ game.moves[Len(game.moves)] = from_playtak(cur.line).val
    /\ (cur.src = "engine" /\ DecodableBestmove(cur.line))
        => /\ Len(serverSent) = 1
           /\ engineSent = <<>>
           /\ game.moves # <<>>
           /\ game.moves[Len(game.moves)] = from_ptn(cur.line[2]).val

\* C9: in GameLoop no line of the engine or of the server is selected while an
\* effect of the line before it (the history append, the clock update or a
\* write it triggers) is still outstanding
C9_LineEffectsAtomic ==
    [][ (pc = "select" /\ ~EffectsComplete) => ~(SelectEngine \/ SelectServer) ]_vars

\* the relay is inside the handler of a server move, the second of the
\* history: its position command is written, its go command is still to be
\* written, and no line is selected until it is
C9_Witness ==
    /\ phase = "GameLoop"
    /\ result = "running"
    /\ cur.src = "server"
    /\ DecodableOwnMove(game, cur.line)
    /\ Len(game.moves) = 2
    /\ Len(engineSent) = 1
    /\ Len(pending) = 1

\* C10: in GameLoop, when a read of the engine's or the server's stream ends
\* or fails, or a write of the relay loop fails, the loop stops with a failure
\* result: the Game is not mutated, no write stays pending, and nothing
\* happens afterwards (no retry, no reconnect)
C10_IoFailureStopsLoop ==
    [][ /\ (phase = "GameLoop" /\ (ServerReadFails \/ EngineReadFails \/ WriteFails))
            => /\ result' = "io_err"
               /\ game' = game
               /\ pending' = <<>>
               /\ phase' = "GameLoop"
        /\ result = "io_err" => vars' = vars ]_vars

\* the write of the go command failed after the position command was written
C10_Witness ==
    /\ phase = "GameLoop"
    /\ result = "io_err"
    /\ cur.src = "server"
    /\ DecodableOwnMove(game, cur.line)
    /\ Len(engineSent) = 1
    /\ pending = <<>>


----------------------------------------------------------------------------
(* option.rs: one call of validate_and_set_option by initialize_engine, over
   every list of advertised options, requested name, requested value and
   assumed default drawn from small sets.  The call is followed through its
   await: the write of the command proceeds in pieces, and the keepalive task
   may write to the server while the call is suspended. *)

MaxAdvertised == 2   \* the longest list of advertised options

\* the main task and the connection before anything has happened
Idle ==
    /\ args = CHOOSE a \in ArgCommands : a.command = "List"
    /\ phase = "Connect"
    /\ pc = "connect"
    /\ result = "running"
    /\ game = NoGame
    /\ seeks = <<>>
    /\ engine_options = <<>>
    /\ engineLaunched = FALSE
    /\ cur = NoLine
    /\ pending = <<>>
    /\ engineSent = <<>>
    /\ serverSent = <<>>
    /\ pingState = "none"
    /\ wire = <<>>
    /\ wmain = <<>>
    /\ wping = <<>>
    /\ wlines = {}
    /\ NothingRead

AdvertisedOptions ==
    [name : {W_HalfKomi, W_Capstones}, default : {0, 2}, min : {0}, max : {3}]

OptionListsOf(n) == UNION {[1..k -> AdvertisedOptions] : k \in 0..n}

OptionCalls ==
    [fn : {"validate_and_set_option"},
     options : OptionListsOf(MaxAdvertised),
     name : {W_HalfKomi, W_Flatstones, W_Capstones},
     value : {-1, 0, 2, 4},
     default : {0, 2}]

\* initialize_engine has read "teiok" and is about to negotiate an option: the
\* engine runs, the options it advertised are collected, and the keepalive
\* task runs when the game came from a seek (none when it was resumed).  The
\* name, the value and the assumed default of the call are drawn from small
\* sets.
InitOption ==
    /\ call \in OptionCalls
    /\ ret = NoCall
    /\ args = CHOOSE a \in ArgCommands : a.command = "Accept" /\ a.seek_id >= 0
    /\ phase = "EngineInit"
    /\ pc = "tei"
    /\ result = "running"
    /\ game = WireGame
    /\ seeks = <<>>
    /\ engine_options = call.options
    /\ engineLaunched = TRUE
    /\ cur = [src |-> "engine", line |-> L_teiok]
    /\ pending = <<>>
    /\ engineSent = <<>>
    /\ serverSent = <<>>
    /\ pingState \in {"running", "none"}
    /\ wire = <<>>
    /\ wmain = <<>>
    /\ wping = <<>>
    /\ wlines = {}
    /\ NothingRead

\* the call runs up to its await: the decision, and with a command to write,
\* write_all begins on the engine's input and the call is suspended ("Pending");
\* without one the call returns at once
CallOption ==
    /\ call.fn = "validate_and_set_option"
    /\ ret = NoCall
    /\ LET r == validate_and_set_option(call.options, call.name, call.value, call.default)
       IN  IF IsOk(r) /\ r.val # <<>>
           THEN /\ wmain' = line_bytes(r.val[1])
                /\ ret' = [fn |-> call.fn, tag |-> "Pending", written |-> <<>>]
           ELSE /\ ret' = [fn |-> call.fn, tag |-> r.tag, written |-> <<>>]
                /\ UNCHANGED wmain
    /\ UNCHANGED <<mux, call, args, phase, pc, result, game, seeks, engine_options,
                   engineLaunched, cur, pending, engineSent, serverSent, pingState,
                   wire, wping, wlines>>

\* one poll_write of the call's write_all takes n bytes of the command; after
\* the last byte write returns Ok and so does the call
OptionPollWrite ==
    /\ ret # NoCall
    /\ ret.tag = "Pending"
    /\ \E n \in 1..Len(wmain) :
           /\ wmain' = SubSeq(wmain, n + 1, Len(wmain))
           /\ ret' = [ret EXCEPT !.written = @ \o SubSeq(wmain, 1, n),
                                 !.tag = IF n = Len(wmain) THEN "Ok" ELSE "Pending"]
    /\ UNCHANGED <<mux, call, args, phase, pc, result, game, seeks, engine_options,
                   engineLaunched, cur, pending, engineSent, serverSent, pingState,
                   wire, wping, wlines>>

\* a poll_write fails: write_all gives up with the bytes already taken left
\* on the engine's input, and the ? returns the error from the call
OptionWriteFails ==
    /\ ret # NoCall
    /\ ret.tag = "Pending"
    /\ wmain' = <<>>
    /\ ret' = [ret EXCEPT !.tag = "IoErr"]
    /\ UNCHANGED <<mux, call, args, phase, pc, result, game, seeks, engine_options,
                   engineLaunched, cur, pending, engineSent, serverSent, pingState,
                   wire, wping, wlines>>

MaxPingBytes == 5   \* the most keepalive bytes explored on the server connection

\* ping: its sleep ends and write(&mut writer, "PING\n") begins on the server
\* connection, whatever the main task is doing
OptionPingBegins ==
    /\ pingState = "running"
    /\ wping = <<>>
    /\ Len(wire) + Len(line_bytes(L_PING)) <= MaxPingBytes
    /\ wping' = line_bytes(L_PING)
    /\ wlines' = wlines \cup {L_PING}
    /\ UNCHANGED <<mux, call, ret, args, phase, pc, result, game, seeks, engine_options,
                   engineLaunched, cur, pending, engineSent, serverSent, pingState,
                   wire, wmain>>

NextOption ==
    \/ CallOption
    \/ OptionPollWrite
    \/ OptionWriteFails
    \/ OptionPingBegins
    \/ PingPollWrite

SpecOption == InitOption /\ [][NextOption]_vars

\* the positions of the advertised options with the requested name
Advertised(options, name) == {i \in 1..Len(options) : options[i].name = name}

\* the first of them
FirstAdvertised(options, name) ==
    options[CHOOSE i \in Advertised(options, name) :
                \A j \in Advertised(options, name) : i <= j]

\* the bytes of the command "setoption name <name> value <requested>"
OptionCommandBytes ==
    line_bytes(<<W_setoption, W_name, call.name, W_value, fmt_i32(call.value)>>)

\* C11: validate_and_set_option follows the decision table.  Advertised and
\* requested # advertised default: the call returns success with exactly the
\* bytes of the command "setoption name <name> value <requested>" written.
\* Advertised and equal: success, nothing written.  Not advertised and
\* requested = assumed default: success, nothing written.  Not advertised and
\* different: failure, nothing written.  Only in the first row is the call
\* ever suspended in a write, and what it has written so far is then the
\* first bytes of that command.  (A call whose write fails is outside the
\* table.)
C11_OptionDecisionTable ==
    (call.fn = "validate_and_set_option" /\ ret # NoCall /\ ret.tag # "IoErr")
    => IF Advertised(call.options, call.name) # {}
       THEN IF call.value # FirstAdvertised(call.options, call.name).default
            THEN \/ ret.tag = "Ok" /\ ret.written = OptionCommandBytes
                 \/ /\ ret.tag = "Pending"
                    /\ wmain # <<>>
                    /\ ret.written \o wmain = OptionCommandBytes
            ELSE ret.tag = "Ok" /\ ret.written = <<>>
       ELSE IF call.value = call.default
            THEN ret.tag = "Ok" /\ ret.written = <<>>
            ELSE ret.tag = "Err" /\ ret.written = <<>>

\* HalfKomi advertised with default 0 and 4 requested, assumed default 0: the
\* call has returned success after writing the one command, and the keepalive
\* task has written its PING to the server meanwhile
C11_Witness ==
    /\ call.fn = "validate_and_set_option"
    /\ call.name = W_HalfKomi /\ call.value = 4 /\ call.default = 0
    /\ Len(call.options) = 2
    /\ call.options[2] = [name |-> W_HalfKomi, default |-> 0, min |-> 0, max |-> 3]
    /\ call.options[1].name = W_Capstones
    /\ ret # NoCall
    /\ ret.tag = "Ok"
    /\ ret.written = line_bytes(<<W_setoption, W_name, W_HalfKomi, W_value, <<"4">> >>)
    /\ wire = line_bytes(L_PING)


----------------------------------------------------------------------------
(* game.rs: the codecs called on their own.  A call encodes a value and
   decodes the result again; the values are drawn from small sets. *)

MaxBoard == 8   \* the largest board size of flatstones_for_size
MaxDrops == 2   \* the longest drop sequence explored

BoardSizes == 3..MaxBoard

\* drop counts: small ones, the largest single digit, and the first count
\* that is not a digit
DropValues == {1, 2, 9, 10}

DropSeqs == UNION {[1..k -> DropValues] : k \in 1..MaxDrops}

\* the GameMove values on the squares of the largest board
Moves ==
    {Place(x, y, p) : x \in 0..(MaxBoard - 1), y \in 0..(MaxBoard - 1), p \in PieceTypes}
    \cup {Spread(sq[1], sq[2], d, ds) :
              sq \in (0..(MaxBoard - 1)) \X (0..(MaxBoard - 1)),
              d \in Directions, ds \in DropSeqs}

GameIds == {1, 12}

CodecCalls ==
    [fn : {"to_playtak"}, move : Moves, game_id : GameIds]
    \cup [fn : {"to_ptn"}, move : Moves]
    \cup {[fn |-> "square_from_coords", size |-> n, x |-> x, y |-> y] :
              n \in BoardSizes, x \in 0..(MaxBoard - 1), y \in 0..(MaxBoard - 1)}

InitCodec ==
    /\ Idle
    /\ call \in CodecCalls
    /\ call.fn = "square_from_coords" => call.x < call.size /\ call.y < call.size
    /\ ret = NoCall

\* GameMove::to_playtak, then GameMove::from_playtak on the line
CallWire ==
    /\ call.fn = "to_playtak"
    /\ ret = NoCall
    /\ \E e \in {to_playtak(call.move, call.game_id, overflow_checks) :
                    overflow_checks \in BOOLEAN} :
           ret' = [fn |-> call.fn, encoded |-> e,
                   decoded |-> IF IsOk(e) THEN from_playtak(e.val) ELSE e]
    /\ UNCHANGED <<mux, call, args, phase, pc, result, game, seeks, engine_options,
                   engineLaunched, cur, pending, engineSent, serverSent, pingState,
                   wire, wmain, wping, wlines>>

\* GameMove::to_ptn, then GameMove::from_ptn on the text
CallPtn ==
    /\ call.fn = "to_ptn"
    /\ ret = NoCall
    /\ LET e == to_ptn(call.move)
       IN  ret' = [fn |-> call.fn, encoded |-> e,
                   decoded |-> IF IsOk(e) THEN from_ptn(e.val) ELSE e]
    /\ UNCHANGED <<mux, call, args, phase, pc, result, game, seeks, engine_options,
                   engineLaunched, cur, pending, engineSent, serverSent, pingState,
                   wire, wmain, wping, wlines>>

\* square_from_coords, then coords_from_square on the square
CallCoords ==
    /\ call.fn = "square_from_coords"
    /\ ret = NoCall
    /\ LET e == square_from_coords(call.x, call.y)
       IN  ret' = [fn |-> call.fn, encoded |-> e,
                   decoded |-> IF IsOk(e) THEN coords_from_square(e.val) ELSE e]
    /\ UNCHANGED <<mux, call, args, phase, pc, result, game, seeks, engine_options,
                   engineLaunched, cur, pending, engineSent, serverSent, pingState,
                   wire, wmain, wping, wlines>>

NextCodec ==
    \/ CallWire
    \/ CallPtn
    \/ CallCoords

SpecCodec == InitCodec /\ [][NextCodec]_vars

\* C12: the wire codec round-trips: for every move and game id, from_playtak
\* of the line produced by to_playtak yields the move
C12_WireRoundTrip ==
    (call.fn = "to_playtak" /\ ret # NoCall) => ret.decoded = Ok(call.move)

\* the spread east from h1 has been given to to_playtak, which panicked
C12_Witness ==
    /\ call.fn = "to_playtak"
    /\ call.move = Spread(MaxBoard - 1, 0, "East", <<1>>)
    /\ ret # NoCall
    /\ ret.encoded = Panic

\* C13: the algebraic codec round-trips: for every move, from_ptn of the text
\* produced by to_ptn yields the move
C13_PtnRoundTrip ==
    (call.fn = "to_ptn" /\ ret # NoCall) => ret.decoded = Ok(call.move)

\* the spread from a1 dropping 9 then 1 has been encoded, and its text is
\* rejected by from_ptn
C13_Witness ==
    /\ call.fn = "to_ptn"
    /\ call.move = Spread(0, 0, "North", <<9, 1>>)
    /\ ret # NoCall
    /\ IsOk(ret.encoded)
    /\ ret.decoded = Err

\* C14: the coordinate codec round-trips: for every board size in 3..8 and
\* every (x, y) with 0 <= x, y <= size - 1, coords_from_square of
\* square_from_coords(x, y) succeeds with (x, y)
C14_CoordsRoundTrip ==
    (call.fn = "square_from_coords" /\ ret # NoCall)
    => /\ call.size \in 3..8 /\ call.x < call.size /\ call.y < call.size
       /\ ret.decoded = Ok(<<call.x, call.y>>)

\* the corner h8 of the largest board has gone through both functions
C14_Witness ==
    /\ call.fn = "square_from_coords"
    /\ call.size = 8 /\ call.x = 7 /\ call.y = 7
    /\ ret # NoCall
    /\ ret.encoded = Ok(<<"h", "8">>)
    /\ ret.decoded = Ok(<<7, 7>>)


----------------------------------------------------------------------------
(* Properties of the relay loop and of the phases before it, continued. *)

\* an engine line that is no "bestmove <move>": no token, another first
\* token, or "bestmove" alone
UnrecognizedEngine(line) ==
    \/ Len(line) = 0
    \/ line[1] # W_bestmove
    \/ Len(line) < 2

\* a server line of game g that is none of "P <square> ..", "M <src> <dst> ..",
\* "Time <w> <b>", "Over <result>", or a line with no token at all
UnrecognizedServer(g, line) ==
    \/ Len(line) = 0
    \/ /\ line[1] = GameTag(g.id)
       /\ \/ Len(line) = 1
          \/ line[2] \notin {W_P, W_M, W_Time, W_Over}
          \/ line[2] = W_P /\ Len(line) < 3
          \/ line[2] = W_M /\ Len(line) < 4
          \/ line[2] = W_Time /\ Len(line) < 4
          \/ line[2] = W_Over /\ Len(line) < 3

\* C15: in GameLoop an engine or server line that is not a recognized message
\* shape is dropped: the Game is unchanged, nothing is written to either
\* side, and the loop keeps waiting in GameLoop
C15_MalformedDropped ==
    [][ (/\ pc = "select"
         /\ \/ cur'.src = "server" /\ UnrecognizedServer(game, cur'.line) /\ SelectServer
            \/ cur'.src = "engine" /\ UnrecognizedEngine(cur'.line) /\ SelectEngine)
        => /\ game' = game
           /\ result' = "running"
           /\ phase' = "GameLoop"
           /\ pc' = "select"
           /\ pending' = <<>> ]_vars

\* the server sent an empty line during the game and the run ended in a panic
C15_Witness ==
    /\ phase = "GameLoop"
    /\ cur = [src |-> "server", line |-> L_Empty]
    /\ Len(game.moves) >= 1
    /\ result = "panic"


\* a "Login ..." line is among the writes still to be made
LoginPending(ops) ==
    \E i \in 1..Len(ops) :
        ops[i].op = "write" /\ ops[i].dst = "server" /\ ops[i].line[1] = <<"L", "o", "g", "i", "n">>

\* C16: the login is sent only after "Welcome!", "Login or Register" and the
\* "OK" that acknowledges the client announcement were received in that
\* order; when one of them differs the run ends in failure, and no Login line
\* is sent
C16_LoginAfterBanners ==
    [][ /\ (pc' = "banner2" /\ pc # "banner2") => pc = "banner1" /\ cur'.line = L_Welcome
        /\ (pc' = "ack" /\ pc # "ack")
            => /\ pc = "banner2" /\ cur'.line = L_LoginOrRegister
               /\ pending' = <<Write("server", L_Client)>>
        /\ (pc' = "auth" /\ pc # "auth") => pc = "ack" /\ cur'.line = L_OK
        /\ (LoginPending(pending') /\ ~LoginPending(pending))
            => /\ pc = "ack" /\ pc' = "auth"
               /\ pending' = <<Write("server", to_login_string(args.login))>>
        /\ (\/ ReadBanner1 /\ cur'.line # L_Welcome
            \/ ReadBanner2 /\ cur'.line # L_LoginOrRegister
            \/ ReadAck /\ cur'.line # L_OK)
            => result' = "err" /\ pending' = <<>> /\ phase' = "Handshake"
        /\ (result = "err" /\ phase = "Handshake") => vars' = vars ]_vars

\* the login has been written, after the acknowledgement "OK"
C16_Witness ==
    /\ pc = "auth"
    /\ phase = "Authenticate"
    /\ cur = [src |-> "server", line |-> L_OK]
    /\ serverSent = <<to_login_string(args.login)>>
    /\ pending = <<>>
    /\ result = "running"


\* a welcome line that carries the login name: "Welcome <name>!"
WelcomeWithName(line) ==
    /\ Len(line) >= 2
    /\ line[1] = W_Welcome
    /\ line[2][Len(line[2])] = "!"

\* a resumption line: "Game Start ..." that parses into a Game
ResumptionLine(line) ==
    /\ Len(line) >= 2 /\ line[1] = W_Game /\ line[2] = W_Start
    /\ IsOk(Game_from_str(line))

\* C17: the first response after the login decides the phase: "Authentication
\* failure" ends the run in failure with no engine launched; a resumption
\* line leads directly to Resume (no seek list read, nothing sent); a welcome
\* line with the login name leads to SeekNegotiation
C17_AuthResponseDecides ==
    [][ /\ (pc = "auth" /\ ReadAuth /\ cur'.line = L_AuthFailure)
            => /\ result' = "err" /\ phase' = "Authenticate"
               /\ ~engineLaunched' /\ game' = NoGame /\ pending' = <<>>
        /\ (pc = "auth" /\ ReadAuth /\ ResumptionLine(cur'.line))
            => /\ result' = "running" /\ phase' = "Resume" /\ pc' = "resume"
               /\ game' = Game_from_str(cur'.line).val
               /\ seeks' = <<>> /\ pending' = <<>> /\ ~engineLaunched'
        /\ (pc = "auth" /\ ReadAuth /\ WelcomeWithName(cur'.line))
            => /\ result' = "running" /\ phase' = "SeekNegotiation" /\ pc' = "seeks"
               /\ game' = NoGame /\ pending' = <<>> /\ ~engineLaunched'
        /\ phase' = "Resume" => seeks' = <<>> /\ pending' = <<>> /\ serverSent' = <<>>
        /\ (phase = "Authenticate" /\ result = "err") => vars' = vars ]_vars

\* the login was answered by the resumption line of game 12 and the relay is
\* in Resume with that Game
C17_Witness ==
    /\ phase = "Resume"
    /\ pc = "resume"
    /\ cur.src = "server"
    /\ ResumptionLine(cur.line)
    /\ game = Game_from_str(cur.line).val
    /\ game.id = 12
    /\ result = "running"


\* a move line (P or M) as the resume loop recognises it
ResumeMoveLine(line) == Len(line) >= 2 /\ (line[2] = W_P \/ line[2] = W_M)

\* a clock line as the resume loop recognises it
ResumeTimeLine(line) == Len(line) >= 2 /\ line[2] = W_Time

\* C18: a resumed game starts with no moves and the base time on both
\* clocks; every move line read before the acknowledgement appends its move,
\* every Time line replaces the clocks, any other line changes nothing; the
\* acknowledgement leaves the game as it is and is the last server line read
\* until the engine is initialized
C18_ResumeReplaysHistory ==
    [][ /\ (pc = "auth" /\ phase' = "Resume")
            => /\ game'.moves = <<>>
               /\ game'.time = <<parse_u32(cur'.line[9]).val, parse_u32(cur'.line[9]).val>>
        /\ (pc = "resume" /\ ResumeRead /\ result' = "running")
            => /\ ResumeMoveLine(cur'.line)
                    => /\ game' = [game EXCEPT !.moves = Append(@, from_playtak(cur'.line).val)]
                       /\ phase' = "Resume" /\ pc' = "resume"
               /\ ResumeTimeLine(cur'.line)
                    => /\ game' = [game EXCEPT !.time = <<parse_u32(cur'.line[3]).val,
                                                          parse_u32(cur'.line[4]).val>>]
                       /\ phase' = "Resume" /\ pc' = "resume"
               /\ (~ResumeMoveLine(cur'.line) /\ ~ResumeTimeLine(cur'.line))
                    => game' = game
               /\ cur'.line = L_Resumed
                    => phase' = "EngineInit" /\ pc' = "tei"
               /\ phase' = "EngineInit" => cur'.line = L_Resumed
        /\ (phase = "EngineInit" /\ phase' = "EngineInit" /\ cur' # cur)
            => cur'.src = "engine" /\ game' = game ]_vars

\* EngineInit was entered on the acknowledgement after two move lines and a
\* Time line: the history holds the two moves and the clocks the Time values
C18_Witness ==
    /\ phase = "EngineInit"
    /\ cur.src = "server"
    /\ cur.line = L_Resumed
    /\ Len(game.moves) = 2
    /\ game.moves[1] = Place(0, 0, "Flatstone")
    /\ game.time = <<30, 4294968>>
    /\ result = "running"


\* the Seek or Accept line that the command line asks for
NegotiationLine(a, ss) ==
    IF a.command = "Seek" THEN to_seek_string(a.seek)
    ELSE IF a.seek_id >= 0 THEN <<W_Accept, fmt_u32(a.seek_id)>>
    ELSE <<W_Accept, fmt_u32(ss[FindSeek(ss, a.opponent)].id)>>

\* C19: in accept or post mode the relay waits for the game after its Seek or
\* Accept line is sent; "NOK" ends the run in failure with the engine never
\* launched; any other line that is not a game-start line keeps it waiting;
\* EngineInit is entered from SeekNegotiation only on a "Game Start" line,
\* with the Game parsed from that line
C19_WaitForGameStart ==
    [][ /\ (pc = "seeks" /\ pc' = "wait_start" /\ result' = "running" /\ args.command # "List")
            => pending' = <<Write("server", NegotiationLine(args, seeks))>>
        /\ (pc = "wait_start" /\ WaitStartRead)
            => /\ args.command # "List"
               /\ cur'.line = <<W_NOK>>
                    => /\ result' = "err" /\ phase' = "SeekNegotiation"
                       /\ ~engineLaunched' /\ pending' = <<>>
               /\ (cur'.line # <<W_NOK>> /\ ~LineStartsWith2(cur'.line, W_Game, W_Start))
                    => /\ result' = "running" /\ phase' = "SeekNegotiation"
                       /\ pc' = "wait_start" /\ game' = game /\ ~engineLaunched'
        /\ (phase = "SeekNegotiation" /\ phase' = "EngineInit")
            => /\ pc = "wait_start" /\ cur'.src = "server"
               /\ LineStartsWith2(cur'.line, W_Game, W_Start)
               /\ IsOk(Game_from_str(cur'.line))
               /\ game' = Game_from_str(cur'.line).val
        /\ phase' = "SeekNegotiation" => ~engineLaunched'
        /\ (phase = "SeekNegotiation" /\ result # "running") => vars' = vars ]_vars

\* the posted seek was refused: the run has failed in SeekNegotiation on the
\* "NOK" line and no engine was launched
C19_Witness ==
    /\ phase = "SeekNegotiation"
    /\ pc = "wait_start"
    /\ args.command # "List"
    /\ cur.src = "server"
    /\ cur.line = <<W_NOK>>
    /\ result = "err"
    /\ ~engineLaunched

\* the other case of C19: the game-start line was parsed and EngineInit entered
C19_WitnessStart ==
    /\ phase = "EngineInit"
    /\ pingState # "none"
    /\ cur.src = "server"
    /\ LineStartsWith2(cur.line, W_Game, W_Start)
    /\ game = Game_from_str(cur.line).val


\* whether a line written to the server is a Seek or an Accept line
IsSeekOrAccept(line) == line # <<>> /\ (line[1] = W_Seek \/ line[1] = W_Accept)

\* C20: in list mode the line that ends the seek list leaves the collected
\* seeks as they are and only "quit" to send, after which the run ends; no
\* Seek or Accept line is ever sent or due, the keepalive is not started, the
\* engine is never launched and neither EngineInit nor GameLoop is entered
C20_ListModeOnlyLists ==
    [][ args.command = "List" =>
        /\ (pc = "seeks" /\ SeeksRead /\ ~LineStartsWith2(cur'.line, W_Seek, W_new))
            => /\ pending' = <<Write("server", L_quit), Stop("ok")>>
               /\ seeks' = seeks /\ phase' = "SeekNegotiation" /\ result' = "running"
        /\ (pc = "wait_start" /\ pending' # pending)
            => \/ result' = "ok" /\ serverSent' = <<L_quit>> /\ pending' = <<>>
               \/ result' = "io_err" /\ serverSent' = <<>>
        /\ pc = "wait_start" => ~WaitStartRead
        /\ \A i \in 1..Len(serverSent') : ~IsSeekOrAccept(serverSent'[i])
        /\ \A i \in 1..Len(pending') :
               pending'[i].op = "write" => ~IsSeekOrAccept(pending'[i].line)
        /\ ~engineLaunched'
        /\ pingState' = "none"
        /\ phase' \notin {"EngineInit", "GameLoop"}
        /\ result = "ok" => vars' = vars ]_vars

\* list mode has read one seek announcement and the end of the list, has
\* sent "quit" and the run has ended successfully
C20_Witness ==
    /\ args.command = "List"
    /\ phase = "SeekNegotiation"
    /\ Len(seeks) = 1
    /\ serverSent = <<L_quit>>
    /\ result = "ok"
    /\ ~engineLaunched


\* a clock line of the session's own game whose two values are u32 numbers
OwnTimeLine(g, line) ==
    /\ Len(line) >= 4
    /\ ~OtherGame(g, line)
    /\ line[2] = W_Time
    /\ IsOk(parse_u32(line[3]))
    /\ IsOk(parse_u32(line[4]))

\* C21: in GameLoop a Time line of the session's own game sets the white and
\* the black clock to its two values and changes nothing else: the history
\* and the rest of the Game are as before, nothing is sent or due to the
\* engine or the server, and the loop goes on
C21_TimeLineSetsClocksOnly ==
    [][ (/\ pc = "select" /\ phase = "GameLoop"
         /\ cur'.src = "server"
         /\ OwnTimeLine(game, cur'.line)
         /\ SelectServer)
        => /\ game' = [game EXCEPT !.time = <<parse_u32(cur'.line[3]).val,
                                              parse_u32(cur'.line[4]).val>>]
           /\ game'.moves = game.moves
           /\ pending' = <<>>
           /\ engineSent' = <<>>
           /\ serverSent' = <<>>
           /\ phase' = "GameLoop" /\ pc' = "select" /\ result' = "running" ]_vars

\* a Time line of game 1 was processed after a move: the clocks hold its
\* values, the history still has the move and nothing was sent
C21_Witness ==
    /\ phase = "GameLoop"
    /\ pc = "select"
    /\ cur.src = "server"
    /\ OwnTimeLine(game, cur.line)
    /\ game.id = 1
    /\ game.time = <<30, 4294968>>
    /\ Len(game.moves) >= 1
    /\ pending = <<>> /\ engineSent = <<>> /\ serverSent = <<>>
    /\ result = "running"


-----------------------------------------------------------------------------
(* game.rs: the decoders called on their own, on wire lines and algebraic
   texts drawn from small sets. *)

MaxText == 4   \* the longest algebraic text explored

\* the squares of the lower left 3x3 corner, as the server writes them
WireSquares == {<<f, r>> : f \in {"A", "B", "C"}, r \in {"1", "2", "3"}}

\* the drop tokens of a spread line: none, one, a zero, several
WireDrops == {<<>>, << <<"1">> >>, << <<"0">> >>, << <<"2">>, <<"1">> >>}

\* the spread lines of game 1 between two of the squares
WireSpreadLines ==
    {<<GameTag(1), <<"M">>, s, t>> \o ds : s \in WireSquares, t \in WireSquares, ds \in WireDrops}

\* the characters of the algebraic texts
PtnChars == {"a", "b", "1", "2", "0", "+", "x", "S"}

PtnTexts == UNION {[1..k -> PtnChars] : k \in 0..MaxText}

DecodeCalls ==
    [fn : {"from_playtak"}, line : WireSpreadLines]
    \cup [fn : {"from_ptn"}, text : PtnTexts]

InitDecode ==
    /\ Idle
    /\ call \in DecodeCalls
    /\ ret = NoCall

\* GameMove::from_playtak on a line
CallFromPlaytak ==
    /\ call.fn = "from_playtak"
    /\ ret = NoCall
    /\ ret' = [fn |-> call.fn, decoded |-> from_playtak(call.line)]
    /\ UNCHANGED <<mux, call, args, phase, pc, result, game, seeks, engine_options,
                   engineLaunched, cur, pending, engineSent, serverSent, pingState,
                   wire, wmain, wping, wlines>>

\* GameMove::from_ptn on a text
CallFromPtn ==
    /\ call.fn = "from_ptn"
    /\ ret = NoCall
    /\ ret' = [fn |-> call.fn, decoded |-> from_ptn(call.text)]
    /\ UNCHANGED <<mux, call, args, phase, pc, result, game, seeks, engine_options,
                   engineLaunched, cur, pending, engineSent, serverSent, pingState,
                   wire, wmain, wping, wlines>>

NextDecode ==
    \/ CallFromPlaytak
    \/ CallFromPtn

SpecDecode == InitDecode /\ [][NextDecode]_vars

\* C22: wire decoding of a spread line yields North or South when only the
\* y coordinate of the two squares differs, East or West when only the x
\* coordinate differs, and fails with a decode error when the squares differ
\* on both axes or are the same square
C22_DirectionNeedsOneAxis ==
    (call.fn = "from_playtak" /\ ret # NoCall)
    => LET s == coords_from_square(call.line[3]).val
           t == coords_from_square(call.line[4]).val
       IN  /\ (s[1] = t[1] /\ t[2] > s[2])
                => IsOk(ret.decoded) /\ ret.decoded.val.direction = "North"
           /\ (s[1] = t[1] /\ t[2] < s[2])
                => IsOk(ret.decoded) /\ ret.decoded.val.direction = "South"
           /\ (s[2] = t[2] /\ t[1] > s[1])
                => IsOk(ret.decoded) /\ ret.decoded.val.direction = "East"
           /\ (s[2] = t[2] /\ t[1] < s[1])
                => IsOk(ret.decoded) /\ ret.decoded.val.direction = "West"
           /\ ((s[1] # t[1] /\ s[2] # t[2]) \/ s = t)
                => ret.decoded = Err

\* the diagonal spread line "Game#1 M A1 B2 1" was decoded into a move north
C22_Witness ==
    /\ call.fn = "from_playtak"
    /\ call.line = <<GameTag(1), <<"M">>, <<"A", "1">>, <<"B", "2">>, <<"1">> >>
    /\ ret # NoCall
    /\ ret.decoded = Ok(Spread(0, 0, "North", <<1>>))

\* the four directions of C22 taken alone: a line whose squares differ on
\* one axis decodes to the direction of that axis
C22_OneAxisDecodes ==
    (call.fn = "from_playtak" /\ ret # NoCall)
    => LET s == coords_from_square(call.line[3]).val
           t == coords_from_square(call.line[4]).val
       IN  /\ (s[1] = t[1] /\ t[2] > s[2])
                => IsOk(ret.decoded) /\ ret.decoded.val.direction = "North"
           /\ (s[1] = t[1] /\ t[2] < s[2])
                => IsOk(ret.decoded) /\ ret.decoded.val.direction = "South"
           /\ (s[2] = t[2] /\ t[1] > s[1])
                => IsOk(ret.decoded) /\ ret.decoded.val.direction = "East"
           /\ (s[2] = t[2] /\ t[1] < s[1])
                => IsOk(ret.decoded) /\ ret.decoded.val.direction = "West"


\* an algebraic text without its optional leading piece marker or count
PtnSquarePart(value) ==
    IF value # <<>> /\ (value[1] \in {"F", "S", "C"} \/ to_digit(value[1], 10) >= 0)
    THEN Tail(value) ELSE value

\* the character after the square is none of the four direction markers
MalformedMarker(value) ==
    /\ Len(PtnSquarePart(value)) >= 3
    /\ PtnSquarePart(value)[3] \notin {"+", "-", ">", "<"}

\* C23: algebraic decoding returns an error value, neither a crash nor a
\* move, for every text whose direction marker is malformed and for every
\* text whose square part is shorter than 2 characters
C23_PtnErrorsAreValues ==
    (call.fn = "from_ptn" /\ ret # NoCall)
    => /\ MalformedMarker(call.text) => ret.decoded = Err
       /\ Len(PtnSquarePart(call.text)) < 2 => ret.decoded = Err

\* from_ptn was given the text "Sa", whose square part is the single
\* character "a", and panicked
C23_Witness ==
    /\ call.fn = "from_ptn"
    /\ call.text = <<"S", "a">>
    /\ Len(PtnSquarePart(call.text)) < 2
    /\ ret # NoCall
    /\ ret.decoded = Panic

\* the marker half of C23 taken alone: a malformed direction marker is an
\* error value
C23_MarkerRejected ==
    (call.fn = "from_ptn" /\ ret # NoCall /\ MalformedMarker(call.text))
    => ret.decoded = Err


\* C24: every Spread move of the move history has a non-empty drops sequence
\* whose entries are all positive
C24_SpreadDropsPositive ==
    game # NoGame
    => \A i \in 1..Len(game.moves) :
           game.moves[i].kind = "Spread"
           => /\ Len(game.moves[i].drops) >= 1
              /\ \A k \in 1..Len(game.moves[i].drops) : game.moves[i].drops[k] >= 1

\* the server line "Game#1 M A1 A2", which carries no drop counts, was
\* decoded and its Spread with an empty drops sequence is in the history
C24_Witness ==
    /\ phase = "GameLoop"
    /\ cur.src = "server"
    /\ cur.line = <<GameTag(1), <<"M">>, <<"A", "1">>, <<"A", "2">> >>
    /\ game.moves # <<>>
    /\ game.moves[Len(game.moves)] = Spread(0, 0, "North", <<>>)


\* C25: the move history is append-only: a step leaves it as it is or adds
\* exactly one move at its end, the id of the Game never changes, and a Game
\* once created is never replaced; a new Game starts with an empty history
C25_HistoryAppendOnly ==
    [][ /\ game # NoGame
            => /\ game' # NoGame
               /\ game'.id = game.id
               /\ \/ game'.moves = game.moves
                  \/ /\ Len(game'.moves) = Len(game.moves) + 1
                     /\ SubSeq(game'.moves, 1, Len(game.moves)) = game.moves
        /\ (game = NoGame /\ game' # NoGame) => game'.moves = <<>> ]_vars

\* a bestmove was relayed and recorded after a move of the opponent: the
\* history holds the opponent's move and then the engine's
C25_Witness ==
    /\ phase = "GameLoop"
    /\ cur.src = "engine"
    /\ cur.line = <<W_bestmove, <<"a", "1", "+">> >>
    /\ pending = <<>>
    /\ Len(game.moves) = 2
    /\ game.moves[1] = Place(0, 0, "Flatstone")
    /\ game.moves[2] = Spread(0, 0, "North", <<1>>)
    /\ result = "running"


\* a setoption command
IsSetoption(line) == line # <<>> /\ line[1] = W_setoption

\* a teinewgame, position or go command
IsGameCommand(line) == line # <<>> /\ line[1] \in {W_teinewgame, W_position, W_go}

\* C26: a setoption command is written to the engine only in EngineInit, in
\* answer to "teiok" and with nothing but setoption commands written since;
\* teinewgame, position and go are written only in GameLoop; no setoption is
\* written or due once the phase is GameLoop
C26_OptionsSetOnce ==
    [][ /\ (Len(engineSent') = Len(engineSent) + 1 /\ IsSetoption(engineSent'[Len(engineSent')]))
            => /\ phase = "EngineInit"
               /\ cur = [src |-> "engine", line |-> L_teiok]
               /\ \A i \in 1..Len(engineSent) : IsSetoption(engineSent[i])
        /\ (Len(engineSent') = Len(engineSent) + 1 /\ IsGameCommand(engineSent'[Len(engineSent')]))
            => phase = "GameLoop"
        /\ \A i \in 1..Len(pending') :
               (pending'[i].op = "write" /\ pending'[i].dst = "engine"
                /\ IsSetoption(pending'[i].line))
               => phase' = "EngineInit" /\ cur' = [src |-> "engine", line |-> L_teiok]
        /\ phase' \in {"GameLoop", "GameOver"}
            => \A i \in 1..Len(pending') :
                   pending'[i].op = "write" => ~IsSetoption(pending'[i].line) ]_vars

\* the negotiation wrote a setoption in EngineInit and the first game
\* command, teinewgame, followed it in GameLoop
C26_Witness ==
    /\ phase = "GameLoop"
    /\ cur = [src |-> "engine", line |-> L_teiok]
    /\ Len(engineSent) >= 2
    /\ IsSetoption(engineSent[1])
    /\ engineSent[Len(engineSent)][1] = W_teinewgame
    /\ result = "running"


\* an operation that writes the command `word` to the engine
WritesCommand(op, word) ==
    op.op = "write" /\ op.dst = "engine" /\ op.line # <<>> /\ op.line[1] = word

\* no line has been processed in GameLoop yet: the last line read is the
\* engine's "teiok", so engineSent holds every command written since then
BeforeFirstGameLine ==
    phase \in {"EngineInit", "GameLoop"} /\ cur = [src |-> "engine", line |-> L_teiok]

\* C27: when the first position command of a run becomes due, a teinewgame
\* command has been written since "teiok" or is due before it, also when
\* the position command is the answer to a server move
C27_NewGameBeforePosition ==
    [][ (/\ BeforeFirstGameLine
         /\ \A i \in 1..Len(pending) : ~WritesCommand(pending[i], W_position)
         /\ \A i \in 1..Len(engineSent) : engineSent[i][1] # W_position)
        => \A i \in 1..Len(pending') :
               WritesCommand(pending'[i], W_position)
               => \/ \E j \in 1..(i - 1) : WritesCommand(pending'[j], W_teinewgame)
                  \/ \E j \in 1..Len(engineSent) : engineSent[j][1] = W_teinewgame ]_vars

\* a new game as black: the opponent's first move was read as the first line
\* of GameLoop and position and go were written for it, with no teinewgame
\* written in the whole run
C27_Witness ==
    /\ phase = "GameLoop"
    /\ cur.src = "server"
    /\ cur.line = <<GameTag(12), <<"P">>, <<"A", "1">> >>
    /\ game.id = 12
    /\ game.color = W_black
    /\ game.moves = <<Place(0, 0, "Flatstone")>>
    /\ pingState # "none"
    /\ Len(engineSent) = 2
    /\ engineSent[1][1] = W_position
    /\ engineSent[2][1] = W_go
    /\ pending = <<>>


\* line is "position startpos moves" followed by the algebraic text of each
\* move of `moves`, in order
ListsHistory(line, moves) ==
    /\ Len(line) = 3 + Len(moves)
    /\ SubSeq(line, 1, 3) = <<W_position, W_startpos, W_moves>>
    /\ \A i \in 1..Len(moves) : Ok(line[3 + i]) = to_ptn(moves[i])

\* C28: when a go command is written to the engine, the command written to
\* the engine just before it is a position command that lists every move of
\* the history as it is at that moment, in order, and the history is not
\* changed by the write
C28_GoFollowsFullPosition ==
    [][ (/\ Len(engineSent') = Len(engineSent) + 1
         /\ engineSent'[Len(engineSent')] # <<>>
         /\ engineSent'[Len(engineSent')][1] = W_go)
        => /\ phase = "GameLoop"
           /\ Len(engineSent) >= 1
           /\ ListsHistory(engineSent[Len(engineSent)], game.moves)
           /\ game'.moves = game.moves ]_vars

\* position and go were written for a server move that followed a move of
\* the engine: the position lists both moves
C28_Witness ==
    /\ phase = "GameLoop"
    /\ cur.src = "server"
    /\ Len(game.moves) = 2
    /\ game.moves[1] = Spread(0, 0, "North", <<1>>)
    /\ Len(engineSent) = 2
    /\ ListsHistory(engineSent[1], game.moves)
    /\ engineSent[2][1] = W_go
    /\ pending = <<>>
    /\ result = "running"


-----------------------------------------------------------------------------
(* main.rs: the two line readers under the select! of run_game.  Each reader
   is BufReader::new(..).lines().fuse(); read() awaits reader.next() once.
   A source writes whole lines, the bytes arrive in pieces, and the Lines
   stream keeps the piece of a line it has taken so far.  The texts are
   short: it is the framing of lines that is followed here, the handlers are
   those of Spec. *)

MaxProduced == 2   \* the most lines a source writes

NL == "\n"

\* the line that ends the game, and the other texts of each source
OverText == <<"O", "v">>
SourceTexts(src) == IF src = "engine" THEN {<<"a">>, <<"b", "c">>} ELSE {<<"m">>, OverText}

OtherSource(src) == IF src = "engine" THEN "server" ELSE "engine"

\* the index of the first newline of bytes, 0 if there is none
FirstNewline(bytes) ==
    IF \E i \in 1..Len(bytes) : bytes[i] = NL
    THEN CHOOSE i \in 1..Len(bytes) : bytes[i] = NL /\ \A j \in 1..(i - 1) : bytes[j] # NL
    ELSE 0

\* a poll that forgets the piece of a line it has taken when no line is complete
poll_next_m(buf, arrived) ==
    LET i == FirstNewline(arrived)
    IN  IF i > 0
        THEN [ready |-> TRUE, line |-> buf \o SubSeq(arrived, 1, i - 1),
              buf |-> <<>>, taken |-> i]
        ELSE [ready |-> FALSE, line |-> <<>>, buf |-> <<>>, taken |-> Len(arrived)]

\* Lines::poll_next on the bytes that have arrived: up to the first newline
\* they complete the line, otherwise they are all added to the held piece
poll_next(buf, arrived) ==
    LET i == FirstNewline(arrived)
    IN  IF i > 0
        THEN [ready |-> TRUE, line |-> buf \o SubSeq(arrived, 1, i - 1),
              buf |-> <<>>, taken |-> i]
        ELSE [ready |-> FALSE, line |-> <<>>, buf |-> buf \o arrived, taken |-> Len(arrived)]

\* read() of one source, polled with the first n bytes of its stream arrived
read(src, n) == poll_next(linebuf[src], SubSeq(stream[src], 1, n))

\* the reader of src after the poll p
AfterPoll(f, src, p) == [f EXCEPT ![src] = p.buf]
Taken(src, p) == [stream EXCEPT ![src] = SubSeq(@, p.taken + 1, Len(@))]

InitSelect == InitWire

\* the engine or the server writes a line
Produce ==
    /\ \E src \in Sources :
       \E text \in SourceTexts(src) :
           /\ Len(produced[src]) < MaxProduced
           /\ produced' = [produced EXCEPT ![src] = Append(@, text)]
           /\ stream' = [stream EXCEPT ![src] = @ \o text \o <<NL>>]
    /\ UNCHANGED <<linebuf, processed>>
    /\ UNCHANGED <<call, ret, args, phase, pc, result, game, seeks, engine_options,
                   engineLaunched, cur, pending, engineSent, serverSent, pingState,
                   wire, wmain, wping, wlines>>

\* the loop of run_game takes the line read from src; "Over" leaves the loop
Deliver(src, line) ==
    /\ processed' = [processed EXCEPT ![src] = Append(@, line)]
    /\ cur' = [src |-> src, line |-> <<line>>]
    /\ result' = IF src = "server" /\ line = OverText THEN "ok" ELSE result
    /\ phase' = IF src = "server" /\ line = OverText THEN "GameOver" ELSE phase

\* select! polls the two read() futures, in either order: the first that is
\* ready is taken and the other future is dropped; when neither is ready the
\* task sleeps and both are polled again later
Select ==
    /\ AtRead("select")
    /\ \E first \in Sources :
       \E n1 \in 0..Len(stream[first]), n2 \in 0..Len(stream[OtherSource(first)]) :
           LET second == OtherSource(first)
               p1 == read(first, n1)
               p2 == read(second, n2)
           IN  IF p1.ready
               THEN /\ linebuf' = AfterPoll(linebuf, first, p1)
                    /\ stream' = Taken(first, p1)
                    /\ Deliver(first, p1.line)
               ELSE IF p2.ready
               THEN /\ linebuf' = AfterPoll(AfterPoll(linebuf, first, p1), second, p2)
                    /\ stream' = [Taken(first, p1) EXCEPT
                                      ![second] = SubSeq(@, p2.taken + 1, Len(@))]
                    /\ Deliver(second, p2.line)
               ELSE /\ linebuf' = AfterPoll(AfterPoll(linebuf, first, p1), second, p2)
                    /\ stream' = [Taken(first, p1) EXCEPT
                                      ![second] = SubSeq(@, p2.taken + 1, Len(@))]
                    /\ UNCHANGED <<processed, cur, result, phase>>
    /\ UNCHANGED produced
    /\ UNCHANGED <<call, ret, args, pc, game, seeks, engine_options,
                   engineLaunched, pending, engineSent, serverSent, pingState,
                   wire, wmain, wping, wlines>>

NextSelect ==
    \/ Produce
    \/ Select

SpecSelect == InitSelect /\ [][NextSelect]_vars

\* the whole lines of bytes, in order; a last piece without newline is left out
RECURSIVE LinesOf(_)
LinesOf(bytes) ==
    LET i == FirstNewline(bytes)
    IN  IF i = 0 THEN <<>>
        ELSE <<SubSeq(bytes, 1, i - 1)>> \o LinesOf(SubSeq(bytes, i + 1, Len(bytes)))

\* the lines of src that its reader has still to hand over
Unread(src) == LinesOf(linebuf[src] \o stream[src])

\* C29: for each source, the lines processed so far followed by the lines
\* still unread are exactly the lines the source has written, in its order:
\* no line is lost, duplicated or reordered by the wait on both sources
C29_NoLineLostOrRepeated ==
    \A src \in Sources : processed[src] \o Unread(src) = produced[src]

\* both sources had a whole line ready at the same wait; the engine's was
\* taken and the server's is still unread, whole
C29_Witness ==
    /\ cur.src = "engine"
    /\ processed["engine"] = << <<"b", "c">> >>
    /\ processed["server"] = <<>>
    /\ linebuf["server"] = <<>>
    /\ stream["server"] = <<"m", NL>>
    /\ produced["server"] = << <<"m">> >>

\* the server's line was then taken at a later wait: each source's lines
\* were processed once, in order
C29_WitnessBoth ==
    /\ processed["engine"] = << <<"b", "c">>, <<"a">> >>
    /\ processed["server"] = << <<"m">>, OverText >>
    /\ result = "ok"


\* C30: when the option is advertised and the requested value differs from
\* the advertised default, the call that returns has written the bytes of the
\* setoption command with the requested value and has succeeded, inside the
\* advertised range [min, max] and outside it alike (a call whose write fails
\* aside)
C30_OutOfRangeStillSet ==
    (/\ call.fn = "validate_and_set_option" /\ ret # NoCall
     /\ ret.tag \notin {"Pending", "IoErr"}
     /\ Advertised(call.options, call.name) # {}
     /\ call.value # FirstAdvertised(call.options, call.name).default)
    => LET option == FirstAdvertised(call.options, call.name)
           command == line_bytes(<<W_setoption, W_name, option.name, W_value,
                                   fmt_i32(call.value)>>)
       IN  /\ valid_value(option, call.value)
                => ret.tag = "Ok" /\ ret.written = command
           /\ ~valid_value(option, call.value)
                => ret.tag = "Ok" /\ ret.written = command

\* Capstones advertised with range 0..3 and default 2, and -1 requested: the
\* call has written "setoption name Capstones value -1" and succeeded
C30_Witness ==
    /\ call.fn = "validate_and_set_option"
    /\ call.name = W_Capstones /\ call.value = -1
    /\ call.options = <<[name |-> W_Capstones, default |-> 2, min |-> 0, max |-> 3]>>
    /\ ~valid_value(call.options[1], call.value)
    /\ ret # NoCall
    /\ ret.tag = "Ok"
    /\ ret.written = line_bytes(<<W_setoption, W_name, W_Capstones, W_value, <<"-", "1">> >>)

====
